---- MODULE Spec2Model ----
(***************************************************************************)
(* Model of the document store of the encounter editor (src/src/store.ts)  *)
(* and of the playback tick that drives it (App component).  The store is  *)
(* a single record of fields; every store method is one atomic action.     *)
(* Identifiers `id_<Date.now()>_<n>` are modelled by their counter n;      *)
(* identifiers that arrive through importScene are numbers above 100.      *)
(***************************************************************************)
EXTENDS Integers, Sequences, FiniteSets, TLC

VARIABLES arena, entities, aoes, actions, selection, placement, toolMode,
          simulationTimeMs, timelineDurationMs, playing,
          idCounter,   \* the module-level `let idCounter`
          frame,       \* the frame callback the playback effect has requested
          lastOp,      \* history: the last store call and facts of its pre-state
          scrubRun     \* history: what happened since the last clean time-0 state

storeVars == <<arena, entities, aoes, actions, selection, placement, toolMode,
               simulationTimeMs, timelineDurationMs, playing>>
vars == <<arena, entities, aoes, actions, selection, placement, toolMode,
          simulationTimeMs, timelineDurationMs, playing, idCounter, frame,
          lastOp, scrubRun>>

-----------------------------------------------------------------------------
(* Bounds of the model *)

\* createId is never called once the counter has reached MaxId
MaxId == 8
\* no operation raises a zIndex above MaxZ
MaxZ == 2
\* addAction is not called on a list of MaxActions actions
MaxActions == 2
\* addAoeAt / duplicateSelected are not called on a list of MaxAoes AoEs
MaxAoes == 3
\* addEntityAt / duplicateSelected are not called on a list of MaxEntities
MaxEntities == 4
\* no keyframe is added to a path of MaxPoints points
MaxPoints == 2

-----------------------------------------------------------------------------
(* Values *)

Vec(x, y) == [x |-> x, y |-> y]

\* an optional field that is not set (undefined, or no key in a JSON text)
Absent == [absent |-> TRUE]

\* `sourceActionId` of an AoE that has none; falsy like undefined
NoId == 0

NoSelection == [kind |-> "null", id |-> NoId]

MotionNone == [kind |-> "none"]

\* no frame callback is requested.  pending: an effect of a playing render
\* is live; timelineDurationMs: the one its callback has closed over;
\* requests: the callbacks requested and neither run nor cancelled
NoFrame == [pending |-> FALSE, timelineDurationMs |-> 0, requests |-> 0]

PathMotion(points, loop, alignRotation) ==
  [kind |-> "path", points |-> points, loop |-> loop,
   alignRotation |-> alignRotation]

SeqToSet(s) == {s[i] : i \in 1..Len(s)}

Ids(s) == {s[i].id : i \in 1..Len(s)}

SetMax(S) == CHOOSE m \in S : \A n \in S : n <= m

\* faulty variant: the number of items for their highest zIndex
NextZByCount(items) == Len(items) + 1

\* Math.max(0, ...items.map((item) => item.zIndex)) + 1
NextZ(items) == SetMax({0} \cup {items[i].zIndex : i \in 1..Len(items)}) + 1

TimelineDefaultMs == 120000

defaultArena == [shape |-> "circle", radius |-> 320, size |-> 520]

defaultEntities ==
  << [id |-> 1, type |-> "boss", position |-> Vec(0, 0), zIndex |-> 2,
      motion |-> MotionNone],
     [id |-> 2, type |-> "player", position |-> Vec(-120, 80), zIndex |-> 1,
      motion |-> MotionNone],
     [id |-> 3, type |-> "player", position |-> Vec(140, -60), zIndex |-> 1,
      motion |-> MotionNone] >>

defaultActions ==
  << [id |-> 4, atMs |-> 2000, type |-> "spawnAoE", executed |-> FALSE,
      payload |-> [shape |-> "circle", positionMode |-> "offset",
                   position |-> Absent, offset |-> Vec(120, 0),
                   rotation |-> 0, shapeParams |-> [radius |-> 120],
                   delayMs |-> 0, durationMs |-> 3000]],
     [id |-> 5, atMs |-> 6000, type |-> "spawnAoE", executed |-> FALSE,
      payload |-> [shape |-> "sector", positionMode |-> "offset",
                   position |-> Absent, offset |-> Vec(0, 0),
                   rotation |-> 45,
                   shapeParams |-> [radius |-> 200, angle |-> 90],
                   delayMs |-> 500, durationMs |-> 4000]] >>

\* the counter after the module has built defaultEntities and defaultActions
InitialIdCounter == 5

getDefaultShapeParams(shape) ==
  CASE shape = "circle" -> [radius |-> 120]
    [] shape = "semicircle" -> [radius |-> 150]
    [] shape = "sector" -> [radius |-> 200, angle |-> 90]
    [] shape = "rect" -> [width |-> 180, height |-> 80]
    [] shape = "line" -> [length |-> 240, width |-> 30]
    [] shape = "ring" -> [innerRadius |-> 60, outerRadius |-> 140]
    [] OTHER -> [radius |-> 120]

createAoE(shape, position, id) ==
  [id |-> id, type |-> "aoe", shape |-> shape,
   shapeParams |-> getDefaultShapeParams(shape), position |-> position,
   rotation |-> 0,
   timing |-> [startAtMs |-> 0, delayMs |-> 0, durationMs |-> 4000],
   zIndex |-> 1, sourceActionId |-> NoId]

Min2(a, b) == IF a <= b THEN a ELSE b
Max2(a, b) == IF a >= b THEN a ELSE b

\* faulty variant: no upper end
clampNoMax(value, min, max) == Max2(min, value)

clamp(value, min, max) == Min2(max, Max2(min, value))

\* faulty variant: the end of the interval is left out
isAoEVisibleBeforeEnd(aoe, timeMs) ==
  LET start == aoe.timing.startAtMs + aoe.timing.delayMs
      end == start + aoe.timing.durationMs
  IN timeMs >= start /\ timeMs < end

isAoEVisible(aoe, timeMs) ==
  LET start == aoe.timing.startAtMs + aoe.timing.delayMs
      end == start + aoe.timing.durationMs
  IN timeMs >= start /\ timeMs <= end

-----------------------------------------------------------------------------
(* The action scheduler *)

IsDerived(aoe) == aoe.sourceActionId # NoId

\* faulty variant: the last boss of the list
findBossLast(ents) ==
  LET bossIdx == {i \in 1..Len(ents) : ents[i].type = "boss"}
  IN IF bossIdx = {} THEN Absent
     ELSE ents[CHOOSE i \in bossIdx : \A j \in bossIdx : i >= j].position

\* entities.find((entity) => entity.type === 'boss'): its position, or Absent
findBoss(ents) ==
  LET bossIdx == {i \in 1..Len(ents) : ents[i].type = "boss"}
  IN IF bossIdx = {} THEN Absent
     ELSE ents[CHOOSE i \in bossIdx : \A j \in bossIdx : i <= j].position

OrOrigin(v) == IF v = Absent THEN Vec(0, 0) ELSE v

spawnAoEFromAction(action, ents, id) ==
  LET boss == OrOrigin(findBoss(ents))
      payload == action.payload
      off == OrOrigin(payload.offset)
      basePosition ==
        IF payload.positionMode = "position"
        THEN OrOrigin(payload.position)
        ELSE Vec(boss.x + off.x, boss.y + off.y)
  IN [id |-> id, type |-> "aoe", shape |-> payload.shape,
      shapeParams |-> payload.shapeParams, position |-> basePosition,
      rotation |-> payload.rotation,
      timing |-> [startAtMs |-> action.atMs, delayMs |-> payload.delayMs,
                  durationMs |-> payload.durationMs],
      zIndex |-> 1, sourceActionId |-> action.id]

\* faulty variant: the fired action is not marked
MarkExecutedNothing(acts, id) == acts

\* nextActions.map((item) => item.id === action.id ? {...item, executed: true} : item)
MarkExecuted(acts, id) ==
  [i \in 1..Len(acts) |->
       IF acts[i].id = id THEN [acts[i] EXCEPT !.executed = TRUE] ELSE acts[i]]

\* faulty variant: the executed flag is not read
IsDueIgnoringExecuted(action, timeMs) == timeMs >= action.atMs

\* if (!action.executed && timeMs >= action.atMs)
IsDue(action, timeMs) == ~action.executed /\ timeMs >= action.atMs

\* the for loop of processActions from position i of state.actions on
RECURSIVE ProcessLoop(_, _, _, _, _, _, _)
ProcessLoop(i, timeMs, stateActions, nextActions, nextAoes, ents, counter) ==
  IF i > Len(stateActions)
  THEN [actions |-> nextActions, aoes |-> nextAoes, idCounter |-> counter]
  ELSE IF IsDue(stateActions[i], timeMs)
       THEN ProcessLoop(i + 1, timeMs, stateActions,
                        MarkExecuted(nextActions, stateActions[i].id),
                        Append(nextAoes,
                               spawnAoEFromAction(stateActions[i], ents,
                                                  counter + 1)),
                        ents, counter + 1)
       ELSE ProcessLoop(i + 1, timeMs, stateActions, nextActions, nextAoes,
                        ents, counter)

\* faulty variant: the actions are gone through from the last to the first
processActionsBackwards(timeMs, acts, as, ents, counter) ==
  ProcessLoop(1, timeMs, [i \in 1..Len(acts) |-> acts[Len(acts) + 1 - i]],
              acts, as, ents, counter)

processActions(timeMs, acts, as, ents, counter) ==
  ProcessLoop(1, timeMs, acts, acts, as, ents, counter)

\* state.actions.map((item) => ({ ...item, executed: false }))
ResetExecuted(acts) ==
  [i \in 1..Len(acts) |-> [acts[i] EXCEPT !.executed = FALSE]]

\* faulty variant: nothing is filtered out
DropDerivedKeepsAll(as) == as

\* faulty variant: everything is filtered out
DropDerivedKeepsNone(as) == <<>>

\* state.aoes.filter((item) => !item.sourceActionId)
DropDerived(as) == SelectSeq(as, LAMBDA item : ~IsDerived(item))

\* faulty variant: <= for <
IsRewindOrSame(clamped, current) == clamped <= current

\* if (clamped < state.simulationTimeMs)
IsRewind(clamped, current) == clamped < current

\* the reducer of setSimulationTimeMs on the store `state`, `next` being the
\* value or the updater's result
SetSimReduce(state, next) ==
  LET clamped == clamp(next, 0, state.timelineDurationMs)
      rewind == IsRewind(clamped, state.simulationTimeMs)
      acts == IF rewind THEN ResetExecuted(state.actions) ELSE state.actions
      as == IF rewind THEN DropDerived(state.aoes) ELSE state.aoes
      processed == processActions(clamped, acts, as, state.entities,
                                  state.idCounter)
  IN [actions |-> processed.actions, aoes |-> processed.aoes,
      simulationTimeMs |-> clamped, idCounter |-> processed.idCounter]

\* the fields of the store the scheduler reads, and the id counter
Current ==
  [actions |-> actions, aoes |-> aoes, entities |-> entities,
   simulationTimeMs |-> simulationTimeMs,
   timelineDurationMs |-> timelineDurationMs, idCounter |-> idCounter]

SetSimResult(next) == SetSimReduce(Current, next)

\* faulty variant: playing is not touched
ResetResultKeepsPlaying ==
  [simulationTimeMs |-> 0, playing |-> playing, aoes |-> DropDerived(aoes),
   actions |-> ResetExecuted(actions)]

\* faulty variant: the AoEs are not filtered
ResetResultKeepsAoes ==
  [simulationTimeMs |-> 0, playing |-> FALSE, aoes |-> aoes,
   actions |-> ResetExecuted(actions)]

\* the reducer of resetSimulation
ResetResult ==
  [simulationTimeMs |-> 0, playing |-> FALSE, aoes |-> DropDerived(aoes),
   actions |-> ResetExecuted(actions)]

NumDerived(as) == Cardinality({i \in 1..Len(as) : IsDerived(as[i])})

-----------------------------------------------------------------------------
(* Export and import *)

\* faulty variant: the AoEs are not filtered
exportSceneKeepsAoes ==
  [arena |-> arena, entities |-> entities, aoes |-> aoes,
   actions |-> [i \in 1..Len(actions) |-> [actions[i] EXCEPT !.executed = FALSE]],
   timelineDurationMs |-> timelineDurationMs]

\* exportScene: the object it returns
exportScene ==
  [arena |-> arena, entities |-> entities,
   aoes |-> SelectSeq(aoes, LAMBDA item : ~IsDerived(item)),
   actions |-> [i \in 1..Len(actions) |-> [actions[i] EXCEPT !.executed = FALSE]],
   timelineDurationMs |-> timelineDurationMs]

AllKeys == {"arena", "entities", "aoes", "actions", "timelineDurationMs"}

\* A text handed to importScene, as JSON.parse sees it: valid (it parses),
\* isNull (it parses to null), has (the keys whose value is neither undefined
\* nor null), notArray (the keys among entities, aoes, actions whose value is
\* there and is no array), and the values of the keys.
\* JSON.stringify: a key whose value is undefined is not written.  Optional
\* fields that are not set are Absent (NoId for sourceActionId) in the text.
Serialize(data) ==
  [valid |-> TRUE, isNull |-> FALSE, notArray |-> {}, has |-> AllKeys,
   arena |-> data.arena,
   entities |-> data.entities,
   aoes |-> data.aoes,
   actions |-> data.actions,
   timelineDurationMs |-> data.timelineDurationMs]

\* a text that JSON.parse rejects
InvalidJson ==
  [valid |-> FALSE, isNull |-> FALSE, notArray |-> {}, has |-> {}, arena |-> defaultArena, entities |-> <<>>,
   aoes |-> <<>>, actions |-> <<>>, timelineDurationMs |-> 0]

\* a text whose only key is a negative timelineDurationMs
NegativeDurationDoc ==
  [valid |-> TRUE, isNull |-> FALSE, notArray |-> {},
   has |-> {"timelineDurationMs"}, arena |-> defaultArena,
   entities |-> <<>>, aoes |-> <<>>, actions |-> <<>>,
   timelineDurationMs |-> -1000]

\* a hand-written scene: a boss without a motion key, a user-placed AoE, an
\* AoE carrying a sourceActionId, an action saved with executed = true
StoredDoc ==
  [valid |-> TRUE, isNull |-> FALSE, notArray |-> {},
   has |-> {"entities", "aoes", "actions", "timelineDurationMs"},
   arena |-> defaultArena,
   entities |-> << [id |-> 101, type |-> "boss", position |-> Vec(40, 0),
                    zIndex |-> 1, motion |-> Absent] >>,
   aoes |-> << [id |-> 102, type |-> "aoe", shape |-> "circle",
                shapeParams |-> [radius |-> 120], position |-> Vec(0, 0),
                rotation |-> 0,
                timing |-> [startAtMs |-> 0, delayMs |-> 0, durationMs |-> 4000],
                zIndex |-> 1, sourceActionId |-> NoId],
               [id |-> 103, type |-> "aoe", shape |-> "circle",
                shapeParams |-> [radius |-> 120], position |-> Vec(0, 0),
                rotation |-> 0,
                timing |-> [startAtMs |-> 2000, delayMs |-> 0, durationMs |-> 3000],
                zIndex |-> 1, sourceActionId |-> 104] >>,
   actions |-> << [id |-> 104, atMs |-> 2000, type |-> "spawnAoE",
                   executed |-> TRUE,
                   payload |-> [shape |-> "circle", positionMode |-> "position",
                                position |-> Absent, offset |-> Absent,
                                rotation |-> 0, shapeParams |-> [radius |-> 120],
                                delayMs |-> 0, durationMs |-> 3000]] >>,
   timelineDurationMs |-> 4000]

\* the text "null"
NullDoc ==
  [valid |-> TRUE, isNull |-> TRUE, notArray |-> {}, has |-> {},
   arena |-> defaultArena, entities |-> <<>>, aoes |-> <<>>, actions |-> <<>>,
   timelineDurationMs |-> 0]

\* a text with an arena, a timelineDurationMs and "aoes": 5
NotArrayDoc ==
  [valid |-> TRUE, isNull |-> FALSE, notArray |-> {"aoes"},
   has |-> {"arena", "aoes", "timelineDurationMs"},
   arena |-> [defaultArena EXCEPT !.shape = "rect"],
   entities |-> <<>>, aoes |-> <<>>, actions |-> <<>>,
   timelineDurationMs |-> 4000]

\* faulty variant: only JSON.parse throws
ImportThrowsInParseOnly(raw) == ~raw.valid

\* a scene whose boss moves on a path written out of order, with two
\* keyframes at one time and no loop key
PathDoc ==
  [valid |-> TRUE, isNull |-> FALSE, notArray |-> {},
   has |-> {"entities", "actions"},
   arena |-> defaultArena,
   entities |-> << [id |-> 101, type |-> "boss", position |-> Vec(0, 0),
                    zIndex |-> 1,
                    motion |-> [kind |-> "path",
                                points |-> << [x |-> 100, y |-> 0, atMs |-> 1000],
                                              [x |-> 0, y |-> 0, atMs |-> 200],
                                              [x |-> 100, y |-> 100, atMs |-> 1000] >>]] >>,
   aoes |-> <<>>, actions |-> <<>>,
   timelineDurationMs |-> 0]

\* a scene with a player, a boss that stands off its one-keyframe path, and
\* a second boss; its actions are listed later one first: an offset-mode
\* action at 1000 and a position-mode action at 0
SpawnDoc ==
  [valid |-> TRUE, isNull |-> FALSE, notArray |-> {},
   has |-> {"entities", "actions"},
   arena |-> defaultArena,
   entities |-> << [id |-> 101, type |-> "player", position |-> Vec(-20, 0),
                    zIndex |-> 1, motion |-> MotionNone],
                   [id |-> 102, type |-> "boss", position |-> Vec(10, 0),
                    zIndex |-> 1,
                    motion |-> [kind |-> "path",
                                points |-> << [x |-> 500, y |-> 500, atMs |-> 0] >>]],
                   [id |-> 103, type |-> "boss", position |-> Vec(70, 0),
                    zIndex |-> 1, motion |-> MotionNone] >>,
   aoes |-> <<>>,
   actions |-> << [id |-> 104, atMs |-> 1000, type |-> "spawnAoE",
                   executed |-> FALSE,
                   payload |-> [shape |-> "sector", positionMode |-> "offset",
                                position |-> Absent, offset |-> Vec(5, 5),
                                rotation |-> 45,
                                shapeParams |-> [radius |-> 200, angle |-> 90],
                                delayMs |-> 200, durationMs |-> 500]],
                  [id |-> 105, atMs |-> 0, type |-> "spawnAoE",
                   executed |-> FALSE,
                   payload |-> [shape |-> "circle", positionMode |-> "position",
                                position |-> Vec(30, 30), offset |-> Absent,
                                rotation |-> 0, shapeParams |-> [radius |-> 120],
                                delayMs |-> 0, durationMs |-> 3000]] >>,
   timelineDurationMs |-> 0]

\* a scene of one boss and one AoE, both with a negative zIndex, and no
\* action
FrontDoc ==
  [valid |-> TRUE, isNull |-> FALSE, notArray |-> {},
   has |-> {"entities", "aoes", "actions"},
   arena |-> defaultArena,
   entities |-> << [id |-> 101, type |-> "boss", position |-> Vec(0, 0),
                    zIndex |-> -3, motion |-> MotionNone] >>,
   aoes |-> << [id |-> 102, type |-> "aoe", shape |-> "circle",
                shapeParams |-> [radius |-> 120], position |-> Vec(0, 0),
                rotation |-> 0,
                timing |-> [startAtMs |-> 0, delayMs |-> 0, durationMs |-> 4000],
                zIndex |-> -2, sourceActionId |-> NoId] >>,
   actions |-> <<>>,
   timelineDurationMs |-> 0]

\* a text whose only key is an arena
ArenaDoc ==
  [valid |-> TRUE, isNull |-> FALSE, notArray |-> {},
   has |-> {"arena"},
   arena |-> [shape |-> "rect", radius |-> 100, size |-> 200],
   entities |-> <<>>, aoes |-> <<>>, actions |-> <<>>,
   timelineDurationMs |-> 0]

\* a text with an arena and three entities: a boss without a motion key, a
\* player on a path written out of order without a loop key, a marker with
\* motion none
MixedDoc ==
  [valid |-> TRUE, isNull |-> FALSE, notArray |-> {},
   has |-> {"arena", "entities"},
   arena |-> [shape |-> "rect", radius |-> 100, size |-> 200],
   entities |-> << [id |-> 101, type |-> "boss", position |-> Vec(40, 0),
                    zIndex |-> 1, motion |-> Absent],
                   [id |-> 102, type |-> "player", position |-> Vec(0, 0),
                    zIndex |-> 1,
                    motion |-> [kind |-> "path",
                                points |-> << [x |-> 100, y |-> 0, atMs |-> 1000],
                                              [x |-> 0, y |-> 0, atMs |-> 200] >>]],
                   [id |-> 103, type |-> "marker", position |-> Vec(0, 50),
                    zIndex |-> 1, motion |-> MotionNone] >>,
   aoes |-> <<>>, actions |-> <<>>,
   timelineDurationMs |-> 0]

\* the texts of the fallback cases, by name
FillTexts ==
  [none |-> NegativeDurationDoc, arena |-> ArenaDoc, stored |-> StoredDoc,
   mixed |-> MixedDoc]

\* the try block of importScene throws: JSON.parse on a text that is no
\* JSON, data.entities on null, .map / .filter on a value that has none
ImportThrows(raw) == ~raw.valid \/ raw.isNull \/ raw.notArray # {}

\* where it throws, for the history: 1 in JSON.parse, 2 reading a key of
\* null, 3 calling .map / .filter
RejectKind(raw) == IF ~raw.valid THEN 1 ELSE IF raw.isNull THEN 2 ELSE 3

\* faulty variant: the AoEs are not filtered
ImportResultKeepsAoes(data) ==
  [arena |-> IF "arena" \in data.has THEN data.arena ELSE defaultArena,
   entities |-> IF "entities" \in data.has THEN data.entities ELSE defaultEntities,
   aoes |-> IF "aoes" \in data.has THEN data.aoes ELSE <<>>,
   actions |-> LET acts == IF "actions" \in data.has THEN data.actions ELSE <<>>
               IN [i \in 1..Len(acts) |-> [acts[i] EXCEPT !.executed = FALSE]],
   timelineDurationMs |-> IF "timelineDurationMs" \in data.has
                          THEN data.timelineDurationMs ELSE TimelineDefaultMs,
   selection |-> NoSelection, placement |-> "null",
   simulationTimeMs |-> 0, playing |-> FALSE]

\* entity.motion ?? { kind: 'none' }
MotionOrNone(m) == IF m = Absent THEN MotionNone ELSE m

\* faulty variant: motion: { kind: 'none' } without `entity.motion ??`
normalizedEntitiesDropMotion(data) ==
  IF "entities" \in data.has
  THEN [i \in 1..Len(data.entities) |->
          [data.entities[i] EXCEPT !.motion = MotionNone]]
  ELSE defaultEntities

\* data.entities?.map(...) ?? defaultEntities
normalizedEntities(data) ==
  IF "entities" \in data.has
  THEN [i \in 1..Len(data.entities) |->
          [data.entities[i] EXCEPT !.motion = MotionOrNone(@)]]
  ELSE defaultEntities

\* faulty variant: a text without an arena keeps the arena of the store
ImportResultKeepsArena(data) ==
  [arena |-> IF "arena" \in data.has THEN data.arena ELSE arena,
   entities |-> normalizedEntities(data),
   aoes |-> SelectSeq(IF "aoes" \in data.has THEN data.aoes ELSE <<>>,
                      LAMBDA item : ~IsDerived(item)),
   actions |-> LET acts == IF "actions" \in data.has THEN data.actions ELSE <<>>
               IN [i \in 1..Len(acts) |-> [acts[i] EXCEPT !.executed = FALSE]],
   timelineDurationMs |-> IF "timelineDurationMs" \in data.has
                          THEN data.timelineDurationMs ELSE TimelineDefaultMs,
   selection |-> NoSelection, placement |-> "null",
   simulationTimeMs |-> 0, playing |-> FALSE]

\* the object importScene hands to set(), for a text that parses
ImportResult(data) ==
  [arena |-> IF "arena" \in data.has THEN data.arena ELSE defaultArena,
   entities |-> normalizedEntities(data),
   aoes |-> SelectSeq(IF "aoes" \in data.has THEN data.aoes ELSE <<>>,
                      LAMBDA item : ~IsDerived(item)),
   actions |-> LET acts == IF "actions" \in data.has THEN data.actions ELSE <<>>
               IN [i \in 1..Len(acts) |-> [acts[i] EXCEPT !.executed = FALSE]],
   timelineDurationMs |-> IF "timelineDurationMs" \in data.has
                          THEN data.timelineDurationMs ELSE TimelineDefaultMs,
   selection |-> NoSelection, placement |-> "null",
   simulationTimeMs |-> 0, playing |-> FALSE]

-----------------------------------------------------------------------------
(* The motion model (App component).  Times and coordinates are integers;  *)
(* an evaluated position is the pair of fractions x / d, y / d.            *)

MotionPoint(x, y, atMs) == [x |-> x, y |-> y, atMs |-> atMs]

\* faulty variant: the point goes to the end
InsertSortedAtEnd(sorted, point) == Append(sorted, point)

\* faulty variant: the point goes before the points of its own atMs
InsertSortedBeforeEqual(sorted, point) ==
  LET k == Cardinality({i \in 1..Len(sorted) : sorted[i].atMs < point.atMs})
  IN SubSeq(sorted, 1, k) \o <<point>> \o SubSeq(sorted, k + 1, Len(sorted))

\* one step of the stable sort: `point` goes behind every point of `sorted`
\* that compares <= to it under (a, b) => a.atMs - b.atMs
InsertSorted(sorted, point) ==
  LET k == Cardinality({i \in 1..Len(sorted) : sorted[i].atMs <= point.atMs})
  IN SubSeq(sorted, 1, k) \o <<point>> \o SubSeq(sorted, k + 1, Len(sorted))

\* points.sort((a, b) => a.atMs - b.atMs): Array.prototype.sort is stable
RECURSIVE SortByAtMs(_)
SortByAtMs(points) ==
  IF points = <<>> THEN <<>>
  ELSE InsertSorted(SortByAtMs(SubSeq(points, 1, Len(points) - 1)),
                    points[Len(points)])

\* motion.loop ?? false, motion.alignRotation ?? false: a key that is not
\* set is a field the record does not have
LoopOf(motion) == IF "loop" \in DOMAIN motion THEN motion.loop ELSE FALSE
AlignOf(motion) ==
  IF "alignRotation" \in DOMAIN motion THEN motion.alignRotation ELSE FALSE

normalizeMotion(motion) ==
  IF motion = Absent THEN MotionNone
  ELSE IF motion.kind # "path" THEN MotionNone
  ELSE PathMotion(SortByAtMs(motion.points), LoopOf(motion), AlignOf(motion))

\* a position with whole coordinates, as a pair of fractions
Exact(v) == [x |-> v.x, y |-> v.y, d |-> 1]

\* faulty variant: first.atMs is not added back
WrapNoOffset(t, firstAtMs, duration) == (t - firstAtMs) % duration

\* ((t - first.atMs) % duration) + first.atMs, for t >= first.atMs
Wrap(t, firstAtMs, duration) == ((t - firstAtMs) % duration) + firstAtMs

\* faulty variant: the ratio is not applied
InterpolateStep(points, t, fallback) ==
  LET hits == {i \in 1..(Len(points) - 1) :
                 t >= points[i].atMs /\ t <= points[i + 1].atMs}
  IN IF hits = {} THEN Exact(fallback)
     ELSE Exact(points[CHOOSE i \in hits : \A j \in hits : i <= j])

\* faulty variant: the ratio is (t - a.atMs) / span also for a span of zero
InterpolateDividesBySpan(points, t, fallback) ==
  LET hits == {i \in 1..(Len(points) - 1) :
                 t >= points[i].atMs /\ t <= points[i + 1].atMs}
  IN IF hits = {} THEN Exact(fallback)
     ELSE LET i == CHOOSE i \in hits : \A j \in hits : i <= j
              a == points[i]
              b == points[i + 1]
              span == b.atMs - a.atMs
          IN [x |-> a.x * span + (b.x - a.x) * (t - a.atMs),
              y |-> a.y * span + (b.y - a.y) * (t - a.atMs),
              d |-> span]

\* faulty variant: the ends of the span are left out
InterpolateInsideSpan(points, t, fallback) ==
  LET hits == {i \in 1..(Len(points) - 1) :
                 t > points[i].atMs /\ t < points[i + 1].atMs}
  IN IF hits = {} THEN Exact(fallback)
     ELSE LET i == CHOOSE i \in hits : \A j \in hits : i <= j
              a == points[i]
              b == points[i + 1]
              span == b.atMs - a.atMs
          IN IF span <= 0 THEN Exact(a)
             ELSE [x |-> a.x * span + (b.x - a.x) * (t - a.atMs),
                   y |-> a.y * span + (b.y - a.y) * (t - a.atMs),
                   d |-> span]

\* the for loop of getMotionPosition: the first pair (a, b) with
\* a.atMs <= t <= b.atMs, ratio = span <= 0 ? 0 : (t - a.atMs) / span
Interpolate(points, t, fallback) ==
  LET hits == {i \in 1..(Len(points) - 1) :
                 t >= points[i].atMs /\ t <= points[i + 1].atMs}
  IN IF hits = {} THEN Exact(fallback)
     ELSE LET i == CHOOSE i \in hits : \A j \in hits : i <= j
              a == points[i]
              b == points[i + 1]
              span == b.atMs - a.atMs
          IN IF span <= 0 THEN Exact(a)
             ELSE [x |-> a.x * span + (b.x - a.x) * (t - a.atMs),
                   y |-> a.y * span + (b.y - a.y) * (t - a.atMs),
                   d |-> span]

\* faulty variant: the hold at the last point is tested first
getMotionPositionLastFirst(motion, fallback, timeMs) ==
  IF motion.kind # "path" THEN Exact(fallback)
  ELSE IF Len(motion.points) = 0 THEN Exact(fallback)
  ELSE LET points == SortByAtMs(motion.points)
           first == points[1]
           last == points[Len(points)]
           duration == last.atMs - first.atMs
       IN IF timeMs >= last.atMs /\ ~(LoopOf(motion) /\ duration > 0)
          THEN Exact(last)
          ELSE IF timeMs <= first.atMs THEN Exact(first)
          ELSE IF timeMs >= last.atMs
               THEN Interpolate(points, Wrap(timeMs, first.atMs, duration),
                                fallback)
               ELSE Interpolate(points, timeMs, fallback)

getMotionPosition(motion, fallback, timeMs) ==
  IF motion.kind # "path" THEN Exact(fallback)
  ELSE IF Len(motion.points) = 0 THEN Exact(fallback)
  ELSE LET points == SortByAtMs(motion.points)
           first == points[1]
           last == points[Len(points)]
           duration == last.atMs - first.atMs
       IN IF timeMs <= first.atMs THEN Exact(first)
          ELSE IF timeMs >= last.atMs
               THEN IF LoopOf(motion) /\ duration > 0
                    THEN Interpolate(points, Wrap(timeMs, first.atMs, duration),
                                     fallback)
                    ELSE Exact(last)
               ELSE Interpolate(points, timeMs, fallback)

\* { ...point, ...patch }: the patch is a record of some of x, y, atMs
MergePoint(point, patch) ==
  [x |-> IF "x" \in DOMAIN patch THEN patch.x ELSE point.x,
   y |-> IF "y" \in DOMAIN patch THEN patch.y ELSE point.y,
   atMs |-> IF "atMs" \in DOMAIN patch THEN patch.atMs ELSE point.atMs]

\* faulty variant: the patch is dropped
updateMotionPointNoPatch(points, index, patch) == SortByAtMs(points)

\* index counts from 1 here, from 0 in the source
updateMotionPoint(points, index, patch) ==
  SortByAtMs([idx \in 1..Len(points) |->
                IF idx = index THEN MergePoint(points[idx], patch)
                ELSE points[idx]])

\* [...points, point].sort((a, b) => a.atMs - b.atMs)
InsertKeyframe(points, point) == SortByAtMs(Append(points, point))

thresholdMs == 250

\* faulty variant: any point is near
findIndexNearAny(points, timeMs) == IF Len(points) = 0 THEN 0 ELSE 1

\* points.findIndex((point) => Math.abs(point.atMs - timeMs) <= thresholdMs),
\* counted from 1; 0 for the -1 of the source
findIndexNear(points, timeMs) ==
  LET near == {i \in 1..Len(points) :
                 /\ points[i].atMs - timeMs <= thresholdMs
                 /\ timeMs - points[i].atMs <= thresholdMs}
  IN IF near = {} THEN 0 ELSE CHOOSE i \in near : \A j \in near : i <= j

\* the keyframes of the motion texts: one at time 0, two at time 500, one at
\* time 1000
MotionPoints ==
  {MotionPoint(0, 0, 0), MotionPoint(100, 0, 500), MotionPoint(0, 100, 500),
   MotionPoint(100, 100, 1000)}

\* the paths of the motion texts: every list of one or two of the
\* keyframes, and every list of three or four different ones
MotionPaths ==
  {<<a>> : a \in MotionPoints}
  \cup {<<a, b>> : a \in MotionPoints, b \in MotionPoints}
  \cup {s \in {<<a, b, c>> : a \in MotionPoints, b \in MotionPoints,
                              c \in MotionPoints} :
            Cardinality(SeqToSet(s)) = 3}
  \cup {s \in {<<a, b, c, d>> : a \in MotionPoints, b \in MotionPoints,
                                 c \in MotionPoints, d \in MotionPoints} :
            Cardinality(SeqToSet(s)) = 4}

\* a text whose one entity stands at (-50, -50) and moves on `points`
MotionDoc(points, loop) ==
  [valid |-> TRUE, isNull |-> FALSE, notArray |-> {},
   has |-> {"entities"},
   arena |-> defaultArena,
   entities |-> << [id |-> 101, type |-> "boss", position |-> Vec(-50, -50),
                    zIndex |-> 1,
                    motion |-> [kind |-> "path", points |-> points,
                                loop |-> loop]] >>,
   aoes |-> <<>>, actions |-> <<>>,
   timelineDurationMs |-> 0]

-----------------------------------------------------------------------------
(* History *)

\* lastOp: the call (op, and arg for a scrub to a number), whether the clock
\* was above 0 before it (late), whether an AoE carried a sourceActionId before
\* it (had), and whether it repeats the call before it (rep)
Record(op) ==
  [op |-> op, arg |-> 0, late |-> FALSE, had |-> FALSE, rep |-> FALSE]

\* a store call that is not a scrub or a reset: only the call is recorded,
\* and a call that leaves the store as it was is not recorded at all
Did(op) == lastOp' = IF storeVars' = storeVars THEN lastOp ELSE Record(op)

\* a scrub or a reset: the call and the facts of the state it found
DidClock(op, arg) ==
  lastOp' = [op |-> op, arg |-> arg, late |-> simulationTimeMs > 0,
             had |-> NumDerived(aoes) > 0,
             rep |-> lastOp.op = op /\ lastOp.arg = arg]

\* an edit of a motion: the call, the entity, and whether the state it found
\* held what the call looks for (a keyframe near the clock, for a drag)
DidMotion(op, id, found) ==
  lastOp' = IF storeVars' = storeVars THEN lastOp
            ELSE [op |-> op, arg |-> id, late |-> FALSE, had |-> found,
                  rep |-> FALSE]

\* a clean time-0 state: nothing fired, nothing derived
Baseline(time, acts, as) ==
  /\ time = 0
  /\ \A i \in 1..Len(acts) : ~acts[i].executed
  /\ NumDerived(as) = 0

\* after an operation other than a scrub; a call that leaves the store as it
\* was is no operation
LeavesRun ==
  scrubRun' = IF storeVars' = storeVars THEN scrubRun
              ELSE IF Baseline(simulationTimeMs', actions', aoes')
                   THEN "base" ELSE "no"

\* after a setSimulationTimeMs call that moved the clock from `from` to `to`
ScrubStep(from, to) ==
  scrubRun' = CASE scrubRun = "no" -> "no"
                [] scrubRun = "any" -> "any"
                [] OTHER -> IF to >= from THEN "fwd" ELSE "any"

-----------------------------------------------------------------------------
(* Inputs *)

ScrubValues == {-1000, 2000, 130000}
UpdaterDeltas == {-120000, 120000}
TickDeltas == {4000, 120000}
PlacePositions == {Vec(40, 40)}
ImportTexts == {NegativeDurationDoc, StoredDoc}
RejectedTexts == {InvalidJson, NullDoc, NotArrayDoc}
PlacementModes == {"aoe"}
QueryTimes == {-5, 0, 200, 500, 1000, 1200, 2000}
PathTimes == {1000}
KeyframeTimes == {0}
DragPositions == {Vec(100, 0)}
ToolModes == {"path"}
SpawnTimes == {500, 2000}
FrontTimes == {0, 2000}
SpawnPatches == {"positionMode", "offsetMode", "durationMs"}
VisibleTimes == {-1, 0, 1199, 1200, 1450, 1700, 1701, 2000, 3000, 3001}
MotionTimes == {0, 500, 750, 1000, 1250, 1500}
RemoveTimes == {2000, 6000}
RetimePatches == {"atMsLater", "rotation"}

-----------------------------------------------------------------------------
(* The store *)

Init ==
  /\ arena = defaultArena
  /\ entities = defaultEntities
  /\ aoes = <<>>
  /\ actions = defaultActions
  /\ selection = NoSelection
  /\ placement = "null"
  /\ toolMode = "select"
  /\ simulationTimeMs = 0
  /\ timelineDurationMs = TimelineDefaultMs
  /\ playing = FALSE
  /\ idCounter = InitialIdCounter
  /\ frame = NoFrame
  /\ lastOp = Record("init")
  /\ scrubRun = "base"

\* set() of the object setSimulationTimeMs returns for the candidate `next`
ApplySetSim(next) ==
  LET r == SetSimResult(next)
  IN /\ r.idCounter <= MaxId
     /\ actions' = r.actions
     /\ aoes' = r.aoes
     /\ simulationTimeMs' = r.simulationTimeMs
     /\ idCounter' = r.idCounter
     /\ ScrubStep(simulationTimeMs, r.simulationTimeMs)
     /\ UNCHANGED <<arena, entities, selection, placement, toolMode,
                    timelineDurationMs, playing>>

\* setSimulationTimeMs(value) with a number
SetSimulationTimeMs(value) ==
  /\ ApplySetSim(value)
  /\ DidClock("setSimulationTimeMs", value)
  /\ UNCHANGED frame

\* setSimulationTimeMs((prev) => prev + d)
SetSimulationTimeMsFn(d) ==
  /\ ApplySetSim(simulationTimeMs + d)
  /\ DidClock("setSimulationTimeMsFn", d)
  /\ UNCHANGED frame

\* the body of the playback effect, run after a render that found playing
\* true (or a new timelineDurationMs): it requests the first frame; the
\* callback keeps the timelineDurationMs of that render
playbackEffect ==
  /\ playing
  /\ ~frame.pending
  /\ frame' = [pending |-> TRUE, timelineDurationMs |-> timelineDurationMs,
               requests |-> frame.requests + 1]
  /\ UNCHANGED <<arena, entities, aoes, actions, selection, placement,
                 toolMode, simulationTimeMs, timelineDurationMs, playing,
                 idCounter, lastOp, scrubRun>>

\* faulty variant: the cleanup does not cancel the frame
playbackCleanupKeepsFrame ==
  /\ frame.pending
  /\ ~playing \/ frame.timelineDurationMs # timelineDurationMs
  /\ frame' = [NoFrame EXCEPT !.requests = frame.requests]
  /\ UNCHANGED <<arena, entities, aoes, actions, selection, placement,
                 toolMode, simulationTimeMs, timelineDurationMs, playing,
                 idCounter, lastOp, scrubRun>>

\* the cleanup of the playback effect, run after a render that found playing
\* or timelineDurationMs changed: cancelAnimationFrame(frameId)
playbackCleanup ==
  /\ frame.pending
  /\ ~playing \/ frame.timelineDurationMs # timelineDurationMs
  /\ frame' = [NoFrame EXCEPT !.requests = frame.requests - 1]
  /\ UNCHANGED <<arena, entities, aoes, actions, selection, placement,
                 toolMode, simulationTimeMs, timelineDurationMs, playing,
                 idCounter, lastOp, scrubRun>>

\* tick: the frame callback that was requested runs, `delta` ms after the
\* previous one: it calls setSimulationTimeMs with an updater, which set()
\* applies to the time of the store, and then requests the next frame
Tick(delta) ==
  /\ frame.pending
  /\ ApplySetSim(clamp(simulationTimeMs + delta, 0, frame.timelineDurationMs))
  /\ DidClock("tick", delta)
  /\ frame' = [frame EXCEPT !.requests = (@ - 1) + 1]

ResetSimulation ==
  /\ simulationTimeMs' = ResetResult.simulationTimeMs
  /\ playing' = ResetResult.playing
  /\ aoes' = ResetResult.aoes
  /\ actions' = ResetResult.actions
  /\ DidClock("resetSimulation", 0)
  /\ UNCHANGED <<arena, entities, selection, placement, toolMode,
                 timelineDurationMs, idCounter>>
  /\ LeavesRun
  /\ UNCHANGED frame

\* the Play button: play() when not playing
Play ==
  /\ ~playing
  /\ playing' = TRUE
  /\ UNCHANGED <<arena, entities, aoes, actions, selection, placement,
                 toolMode, simulationTimeMs, timelineDurationMs, idCounter,
                 scrubRun>>
  /\ Did("play")
  /\ UNCHANGED frame

\* the Play button: pause() when playing
Pause ==
  /\ playing
  /\ playing' = FALSE
  /\ UNCHANGED <<arena, entities, aoes, actions, selection, placement,
                 toolMode, simulationTimeMs, timelineDurationMs, idCounter,
                 scrubRun>>
  /\ Did("pause")
  /\ UNCHANGED frame

addAction ==
  /\ Len(actions) < MaxActions
  /\ idCounter < MaxId
  /\ idCounter' = idCounter + 1
  /\ actions' = Append(actions,
       [id |-> idCounter + 1, atMs |-> simulationTimeMs + 2000,
        type |-> "spawnAoE", executed |-> FALSE,
        payload |-> [shape |-> "circle", positionMode |-> "offset",
                     position |-> Absent, offset |-> Vec(0, 0), rotation |-> 0,
                     shapeParams |-> [radius |-> 120], delayMs |-> 0,
                     durationMs |-> 3000]])
  /\ UNCHANGED <<arena, entities, aoes, selection, placement, toolMode,
                 simulationTimeMs, timelineDurationMs, playing>>
  /\ LeavesRun
  /\ Did("addAction")
  /\ UNCHANGED frame

\* the patches BossActionRow sends: a new atMs, or a payload with one field
\* replaced
ActionPatches == {"atMs"}

\* { ...item, ...patch }
PatchAction(item, patch) ==
  CASE patch = "atMs" -> [item EXCEPT !.atMs = 0]
    [] patch = "atMsLater" -> [item EXCEPT !.atMs = 9000]
    [] patch = "rotation" -> [item EXCEPT !.payload.rotation = 90]
    [] patch = "positionMode" -> [item EXCEPT !.payload.positionMode = "position"]
    [] patch = "offsetMode" -> [item EXCEPT !.payload.positionMode = "offset"]
    [] patch = "durationMs" -> [item EXCEPT !.payload.durationMs = -500]

updateAction(id, patch) ==
  /\ actions' = [i \in 1..Len(actions) |->
       IF actions[i].id = id THEN PatchAction(actions[i], patch) ELSE actions[i]]
  /\ UNCHANGED <<arena, entities, aoes, selection, placement, toolMode,
                 simulationTimeMs, timelineDurationMs, playing, idCounter>>
  /\ LeavesRun
  /\ Did("updateAction")
  /\ UNCHANGED frame

\* faulty variant: the AoEs of the action stay
removeActionKeepsAoes(id) ==
  /\ actions' = SelectSeq(actions, LAMBDA item : item.id # id)
  /\ UNCHANGED <<arena, entities, aoes, selection, placement, toolMode,
                 simulationTimeMs, timelineDurationMs, playing, idCounter>>
  /\ LeavesRun
  /\ lastOp' = [Record("removeAction") EXCEPT !.arg = id]
  /\ UNCHANGED frame

\* removeAction(id); the history keeps the id, also of a call that finds no
\* such action
removeAction(id) ==
  /\ actions' = SelectSeq(actions, LAMBDA item : item.id # id)
  /\ aoes' = SelectSeq(aoes, LAMBDA item : item.sourceActionId # id)
  /\ UNCHANGED <<arena, entities, selection, placement, toolMode,
                 simulationTimeMs, timelineDurationMs, playing, idCounter>>
  /\ LeavesRun
  /\ lastOp' = [Record("removeAction") EXCEPT !.arg = id]
  /\ UNCHANGED frame

addAoeAt(shape, position) ==
  /\ Len(aoes) < MaxAoes
  /\ idCounter < MaxId
  /\ NextZ(aoes) <= MaxZ
  /\ idCounter' = idCounter + 1
  /\ aoes' = Append(aoes,
       [createAoE(shape, position, idCounter + 1)
          EXCEPT !.timing.startAtMs = simulationTimeMs, !.zIndex = NextZ(aoes)])
  /\ selection' = [kind |-> "aoe", id |-> idCounter + 1]
  /\ UNCHANGED <<arena, entities, actions, placement, toolMode,
                 simulationTimeMs, timelineDurationMs, playing>>
  /\ LeavesRun
  /\ Did("addAoeAt")
  /\ UNCHANGED frame

\* the patch the inspector sends for the selected AoE: a new rotation
updateAoe(id, rotation) ==
  /\ aoes' = [i \in 1..Len(aoes) |->
       IF aoes[i].id = id THEN [aoes[i] EXCEPT !.rotation = rotation] ELSE aoes[i]]
  /\ UNCHANGED <<arena, entities, actions, selection, placement, toolMode,
                 simulationTimeMs, timelineDurationMs, playing, idCounter>>
  /\ LeavesRun
  /\ Did("updateAoe")
  /\ UNCHANGED frame

selectAoe(id) ==
  /\ NextZ(aoes) <= MaxZ
  /\ aoes' = [i \in 1..Len(aoes) |->
       IF aoes[i].id = id THEN [aoes[i] EXCEPT !.zIndex = NextZ(aoes)] ELSE aoes[i]]
  /\ selection' = [kind |-> "aoe", id |-> id]
  /\ UNCHANGED <<arena, entities, actions, placement, toolMode,
                 simulationTimeMs, timelineDurationMs, playing, idCounter>>
  /\ LeavesRun
  /\ Did("selectAoe")
  /\ UNCHANGED frame

addEntityAt(type, position) ==
  /\ Len(entities) < MaxEntities
  /\ idCounter < MaxId
  /\ NextZ(entities) <= MaxZ
  /\ idCounter' = idCounter + 1
  /\ entities' = Append(entities,
       [id |-> idCounter + 1, type |-> type, position |-> position,
        zIndex |-> NextZ(entities), motion |-> MotionNone])
  /\ selection' = [kind |-> "entity", id |-> idCounter + 1]
  /\ UNCHANGED <<arena, aoes, actions, placement, toolMode,
                 simulationTimeMs, timelineDurationMs, playing>>
  /\ LeavesRun
  /\ Did("addEntityAt")
  /\ UNCHANGED frame

selectEntity(id) ==
  /\ NextZ(entities) <= MaxZ
  /\ entities' = [i \in 1..Len(entities) |->
       IF entities[i].id = id THEN [entities[i] EXCEPT !.zIndex = NextZ(entities)] ELSE entities[i]]
  /\ selection' = [kind |-> "entity", id |-> id]
  /\ UNCHANGED <<arena, aoes, actions, placement, toolMode,
                 simulationTimeMs, timelineDurationMs, playing, idCounter>>
  /\ LeavesRun
  /\ Did("selectEntity")
  /\ UNCHANGED frame

clearSelection ==
  /\ selection' = NoSelection
  /\ UNCHANGED <<arena, entities, aoes, actions, placement, toolMode,
                 simulationTimeMs, timelineDurationMs, playing, idCounter>>
  /\ LeavesRun
  /\ Did("clearSelection")
  /\ UNCHANGED frame

\* the patches the inspector sends for the selected entity: a new position,
\* or a motion switched to an empty path
EntityPatches == {"position", "motion"}

PatchEntity(item, patch) ==
  CASE patch = "position" -> [item EXCEPT !.position = Vec(40, 0)]
    [] patch = "motion" -> [item EXCEPT !.motion = PathMotion(<<>>, FALSE, FALSE)]

updateEntity(id, patch) ==
  /\ entities' = [i \in 1..Len(entities) |->
       IF entities[i].id = id THEN PatchEntity(entities[i], patch) ELSE entities[i]]
  /\ UNCHANGED <<arena, aoes, actions, selection, placement, toolMode,
                 simulationTimeMs, timelineDurationMs, playing, idCounter>>
  /\ LeavesRun
  /\ Did("updateEntity")
  /\ UNCHANGED frame

updateArena ==
  /\ arena' = [arena EXCEPT !.shape = "rect"]
  /\ UNCHANGED <<entities, aoes, actions, selection, placement, toolMode,
                 simulationTimeMs, timelineDurationMs, playing, idCounter>>
  /\ LeavesRun
  /\ Did("updateArena")
  /\ UNCHANGED frame

deleteSelected ==
  /\ CASE selection.kind = "entity" ->
            /\ entities' = SelectSeq(entities, LAMBDA item : item.id # selection.id)
            /\ selection' = NoSelection
            /\ UNCHANGED aoes
       [] selection.kind = "aoe" ->
            /\ aoes' = SelectSeq(aoes, LAMBDA item : item.id # selection.id)
            /\ selection' = NoSelection
            /\ UNCHANGED entities
       [] OTHER -> UNCHANGED <<entities, aoes, selection>>
  /\ UNCHANGED <<arena, actions, placement, toolMode, simulationTimeMs,
                 timelineDurationMs, playing, idCounter>>
  /\ LeavesRun
  /\ Did("deleteSelected")
  /\ UNCHANGED frame

\* the item a selection refers to, in a list that holds it
Find(items, id) == items[CHOOSE i \in 1..Len(items) : items[i].id = id]

\* faulty variant: the copy keeps the id of its target
CopyKeepsId(target, items, id) ==
  [target EXCEPT !.position = Vec(target.position.x + 20, target.position.y + 20),
                 !.zIndex = NextZ(items)]

\* { ...target, id, position: +20/+20, zIndex: max + 1 }
Copy(target, items, id) ==
  [target EXCEPT !.id = id,
                 !.position = Vec(target.position.x + 20, target.position.y + 20),
                 !.zIndex = NextZ(items)]

duplicateSelected ==
  /\ CASE selection.kind = "entity" /\ selection.id \in Ids(entities) ->
            /\ Len(entities) < MaxEntities
            /\ idCounter < MaxId
            /\ NextZ(entities) <= MaxZ
            /\ entities' = Append(entities,
                 Copy(Find(entities, selection.id), entities, idCounter + 1))
            /\ selection' = [kind |-> "entity", id |-> idCounter + 1]
            /\ idCounter' = idCounter + 1
            /\ UNCHANGED aoes
       [] selection.kind = "aoe" /\ selection.id \in Ids(aoes) ->
            /\ Len(aoes) < MaxAoes
            /\ idCounter < MaxId
            /\ NextZ(aoes) <= MaxZ
            /\ aoes' = Append(aoes,
                 Copy(Find(aoes, selection.id), aoes, idCounter + 1))
            /\ selection' = [kind |-> "aoe", id |-> idCounter + 1]
            /\ idCounter' = idCounter + 1
            /\ UNCHANGED entities
       [] OTHER -> UNCHANGED <<entities, aoes, selection, idCounter>>
  /\ UNCHANGED <<arena, actions, placement, toolMode, simulationTimeMs,
                 timelineDurationMs, playing>>
  /\ LeavesRun
  /\ Did("duplicateSelected")
  /\ UNCHANGED frame

setToolMode(mode) ==
  /\ toolMode' = mode
  /\ UNCHANGED <<arena, entities, aoes, actions, selection, placement,
                 simulationTimeMs, timelineDurationMs, playing, idCounter>>
  /\ LeavesRun
  /\ Did("setToolMode")
  /\ UNCHANGED frame

\* updateEntityMotion(entityId, motion): updateEntity(entityId, { motion })
WithMotion(ents, id, motion) ==
  [i \in 1..Len(ents) |->
     IF ents[i].id = id THEN [ents[i] EXCEPT !.motion = motion] ELSE ents[i]]

\* updateEntity(entityId, { position })
WithPosition(ents, id, position) ==
  [i \in 1..Len(ents) |->
     IF ents[i].id = id THEN [ents[i] EXCEPT !.position = position]
     ELSE ents[i]]

\* const points = motion.kind === 'path' ? [...motion.points] : []
PointsOf(motion) == IF motion.kind = "path" THEN motion.points ELSE <<>>

\* loop: motion.kind === 'path' ? motion.loop : false, and alignRotation
PathWith(motion, nextPoints) ==
  PathMotion(nextPoints,
             IF motion.kind = "path" THEN motion.loop ELSE FALSE,
             IF motion.kind = "path" THEN motion.alignRotation ELSE FALSE)

\* the entities applyEntityDrag leaves
DragResult(entityId, position) ==
  LET entity == Find(entities, entityId)
      motion == normalizeMotion(entity.motion)
      points == PointsOf(motion)
      existingIndex == findIndexNear(points, simulationTimeMs)
  IN IF playing THEN entities
     ELSE IF toolMode = "path" \/ motion.kind = "path"
     THEN IF existingIndex > 0
          THEN WithPosition(
                 WithMotion(entities, entityId,
                   PathWith(motion,
                     updateMotionPoint(points, existingIndex,
                                       [x |-> position.x, y |-> position.y]))),
                 entityId, position)
          ELSE WithPosition(
                 WithMotion(entities, entityId,
                   PathWith(motion,
                     InsertKeyframe(points,
                       MotionPoint(position.x, position.y, simulationTimeMs)))),
                 entityId, position)
     ELSE WithPosition(entities, entityId, position)

\* the keyframe the drag of `entityId` would move: existingIndex, from 1
DragIndex(entityId) ==
  findIndexNear(PointsOf(normalizeMotion(Find(entities, entityId).motion)),
                simulationTimeMs)

\* the drag of an entity on the stage (onDragEnd; entities are draggable
\* when not playing)
applyEntityDrag(entityId, position) ==
  /\ entityId \in Ids(entities)
  /\ ~playing
  /\ \/ DragIndex(entityId) > 0
     \/ Len(PointsOf(normalizeMotion(Find(entities, entityId).motion)))
          < MaxPoints
  /\ entities' = DragResult(entityId, position)
  /\ UNCHANGED <<arena, aoes, actions, selection, placement, toolMode,
                 simulationTimeMs, timelineDurationMs, playing, idCounter>>
  /\ LeavesRun
  /\ DidMotion("applyEntityDrag", entityId, DragIndex(entityId) > 0)
  /\ UNCHANGED frame

\* "Add keyframe at current time": the evaluated position is a whole point
addKeyframeAtTime(entityId) ==
  /\ entityId \in Ids(entities)
  /\ LET entity == Find(entities, entityId)
         motion == normalizeMotion(entity.motion)
         currentPos == getMotionPosition(motion, entity.position,
                                         simulationTimeMs)
         points == PointsOf(motion)
     IN /\ Len(points) < MaxPoints
        /\ currentPos.x % currentPos.d = 0
        /\ currentPos.y % currentPos.d = 0
        /\ entities' = WithMotion(entities, entityId,
             PathWith(motion,
               InsertKeyframe(points,
                 MotionPoint(currentPos.x \div currentPos.d,
                             currentPos.y \div currentPos.d,
                             simulationTimeMs))))
  /\ UNCHANGED <<arena, aoes, actions, selection, placement, toolMode,
                 simulationTimeMs, timelineDurationMs, playing, idCounter>>
  /\ LeavesRun
  /\ DidMotion("addKeyframeAtTime", entityId, FALSE)
  /\ UNCHANGED frame

\* selectedEntity, selectedEntityMotion, selectedMotionPoints of the inspector
HasSelectedEntity == selection.kind = "entity" /\ selection.id \in Ids(entities)
selectedEntityMotion == normalizeMotion(Find(entities, selection.id).motion)
selectedMotionPoints == PointsOf(selectedEntityMotion)

\* the atMs field of a keyframe row
keyframeAtMsChange(index, value) ==
  /\ HasSelectedEntity
  /\ selectedEntityMotion.kind = "path"
  /\ index \in 1..Len(selectedMotionPoints)
  /\ entities' = WithMotion(entities, selection.id,
       [selectedEntityMotion EXCEPT
          !.points = updateMotionPoint(selectedMotionPoints, index,
                                       [atMs |-> value])])
  /\ UNCHANGED <<arena, aoes, actions, selection, placement, toolMode,
                 simulationTimeMs, timelineDurationMs, playing, idCounter>>
  /\ LeavesRun
  /\ DidMotion("keyframeAtMsChange", selection.id, TRUE)
  /\ UNCHANGED frame

\* the Delete button of a keyframe row
keyframeDelete(index) ==
  /\ HasSelectedEntity
  /\ selectedEntityMotion.kind = "path"
  /\ index \in 1..Len(selectedMotionPoints)
  /\ entities' = WithMotion(entities, selection.id,
       [selectedEntityMotion EXCEPT
          !.points = SubSeq(selectedMotionPoints, 1, index - 1)
                     \o SubSeq(selectedMotionPoints, index + 1,
                               Len(selectedMotionPoints))])
  /\ UNCHANGED <<arena, aoes, actions, selection, placement, toolMode,
                 simulationTimeMs, timelineDurationMs, playing, idCounter>>
  /\ LeavesRun
  /\ DidMotion("keyframeDelete", selection.id, TRUE)
  /\ UNCHANGED frame

\* the Loop checkbox
loopChange(checked) ==
  /\ HasSelectedEntity
  /\ selectedEntityMotion.kind = "path"
  /\ entities' = WithMotion(entities, selection.id,
                            [selectedEntityMotion EXCEPT !.loop = checked])
  /\ UNCHANGED <<arena, aoes, actions, selection, placement, toolMode,
                 simulationTimeMs, timelineDurationMs, playing, idCounter>>
  /\ LeavesRun
  /\ DidMotion("loopChange", selection.id, TRUE)
  /\ UNCHANGED frame

\* a call of exportScene: get() only
ExportScene ==
  /\ lastOp' = Record("exportScene")
  /\ UNCHANGED <<arena, entities, aoes, actions, selection, placement,
                 toolMode, simulationTimeMs, timelineDurationMs, playing,
                 idCounter, scrubRun>>
  /\ UNCHANGED frame

\* importScene(raw): `op` names the call for the history; a text on which
\* the try block throws goes to console.error and is recorded as rejected
ImportText(raw, op) ==
  /\ IF ~ImportThrows(raw)
     THEN LET r == ImportResult(raw)
          IN /\ arena' = r.arena
             /\ entities' = r.entities
             /\ aoes' = r.aoes
             /\ actions' = r.actions
             /\ timelineDurationMs' = r.timelineDurationMs
             /\ selection' = r.selection
             /\ placement' = r.placement
             /\ simulationTimeMs' = r.simulationTimeMs
             /\ playing' = r.playing
     ELSE UNCHANGED <<arena, entities, aoes, actions, timelineDurationMs,
                      selection, placement, simulationTimeMs, playing>>
  /\ UNCHANGED <<toolMode, idCounter>>
  /\ LeavesRun
  /\ IF ImportThrows(raw)
     THEN lastOp' = [Record("importRejected") EXCEPT !.arg = RejectKind(raw)]
     ELSE Did(op)
  /\ UNCHANGED frame

\* importScene of a text from outside
importScene(raw) == ImportText(raw, "importScene")

\* importScene of the text FillTexts[name]; the history keeps the name
importSceneOf(name) == ImportText(FillTexts[name], name)

\* Export, then Import of the exported text
importExported == ImportText(Serialize(exportScene), "importExported")

\* setPlacement(placement): the mode of the placement stands for the object
setPlacement(mode) ==
  /\ placement' = mode
  /\ UNCHANGED <<arena, entities, aoes, actions, selection, toolMode,
                 simulationTimeMs, timelineDurationMs, playing, idCounter>>
  /\ LeavesRun
  /\ Did("setPlacement")
  /\ UNCHANGED frame

clearPlacement ==
  /\ placement' = "null"
  /\ UNCHANGED <<arena, entities, aoes, actions, selection, toolMode,
                 simulationTimeMs, timelineDurationMs, playing, idCounter>>
  /\ LeavesRun
  /\ Did("clearPlacement")
  /\ UNCHANGED frame

\* the inspector's edit of the boss position
moveBoss == updateEntity(1, "position")

\* the scrubber and the scheduler, with the editing of actions
Next ==
  \/ \E value \in ScrubValues : SetSimulationTimeMs(value)
  \/ \E d \in UpdaterDeltas : SetSimulationTimeMsFn(d)
  \/ ResetSimulation
  \/ addAction
  \/ \E id \in Ids(actions), patch \in ActionPatches : updateAction(id, patch)
  \/ \E id \in Ids(actions) : removeAction(id)
  \/ moveBoss
  \/ \E raw \in ImportTexts : importScene(raw)
  \/ importExported

Spec == Init /\ [][Next]_vars

\* playback, the scrubber and the scheduler, with the editing of AoEs and
\* export
NextAoe ==
  \/ \E value \in ScrubValues : SetSimulationTimeMs(value)
  \/ ResetSimulation
  \/ Play
  \/ Pause
  \/ \E position \in PlacePositions : addAoeAt("circle", position)
  \/ selection.kind = "aoe" /\ updateAoe(selection.id, 90)
  \/ \E id \in Ids(aoes) : selectAoe(id)
  \/ clearSelection
  \/ deleteSelected
  \/ duplicateSelected
  \/ ExportScene
  \/ importExported

SpecAoe == Init /\ [][NextAoe]_vars

\* the editing of entities and of the arena, with export and import
NextEdit ==
  \/ SetSimulationTimeMs(2000)
  \/ \E position \in PlacePositions : addEntityAt("boss", position)
  \/ \E id \in Ids(entities) : selectEntity(id)
  \/ \E patch \in EntityPatches :
       selection.kind = "entity" /\ updateEntity(selection.id, patch)
  \/ updateArena
  \/ deleteSelected
  \/ duplicateSelected
  \/ \E raw \in ImportTexts : importScene(raw)
  \/ importExported

SpecEdit == Init /\ [][NextEdit]_vars

\* import into a store that is playing, placing, selecting, or past time 0
NextImport ==
  \/ \E raw \in ImportTexts \cup RejectedTexts : importScene(raw)
  \/ SetSimulationTimeMs(2000)
  \/ Play
  \/ Pause
  \/ \E mode \in PlacementModes : setPlacement(mode)
  \/ clearPlacement
  \/ \E position \in PlacePositions : addAoeAt("circle", position)
  \/ clearSelection

SpecImport == Init /\ [][NextImport]_vars

\* the first entity of the list: the boss of the initial and of the imported
\* scene
FirstEntity == {entities[i].id : i \in {1} \cap DOMAIN entities}

\* the rows of the keyframe list of the inspector
KeyframeRows ==
  IF HasSelectedEntity THEN 1..Len(selectedMotionPoints) ELSE {}

\* the editing of a path: drags, keyframes, the inspector, and the clock
NextPath ==
  \/ \E value \in PathTimes : SetSimulationTimeMs(value)
  \/ \E mode \in ToolModes : setToolMode(mode)
  \/ \E id \in FirstEntity, position \in DragPositions :
       applyEntityDrag(id, position)
  \/ \E id \in FirstEntity : addKeyframeAtTime(id)
  \/ \E id \in FirstEntity : selectEntity(id)
  \/ \E index \in KeyframeRows, value \in KeyframeTimes :
       keyframeAtMsChange(index, value)
  \/ \E index \in KeyframeRows : keyframeDelete(index)
  \/ \E checked \in BOOLEAN : loopChange(checked)
  \/ importScene(PathDoc)

SpecPath == Init /\ [][NextPath]_vars

\* playback: the Play button, the effect and its frames, the scrubber, reset,
\* and the placing of AoEs
NextPlay ==
  \/ Play
  \/ Pause
  \/ playbackEffect
  \/ playbackCleanup
  \/ \E delta \in TickDeltas : Tick(delta)
  \/ SetSimulationTimeMs(2000)
  \/ ResetSimulation
  \/ \E position \in PlacePositions : addAoeAt("circle", position)

SpecPlay == Init /\ [][NextPlay]_vars

\* placing, selecting and copying
NextFront ==
  \/ importScene(FrontDoc)
  \/ \E position \in PlacePositions : addEntityAt("player", position)
  \/ \E position \in PlacePositions : addAoeAt("circle", position)
  \/ \E id \in Ids(entities) : selectEntity(id)
  \/ \E id \in Ids(aoes) : selectAoe(id)
  \/ duplicateSelected
  \/ SetSimulationTimeMs(2000)

SpecFront == Init /\ [][NextFront]_vars

\* everything that calls createId, with the deleting of what it made
NextIds ==
  \/ importScene(FrontDoc)
  \/ \E position \in PlacePositions : addEntityAt("player", position)
  \/ \E position \in PlacePositions : addAoeAt("circle", position)
  \/ duplicateSelected
  \/ deleteSelected
  \/ addAction
  \/ \E id \in Ids(actions) : removeAction(id)
  \/ \E value \in FrontTimes : SetSimulationTimeMs(value)

SpecIds == Init /\ [][NextIds]_vars

\* the entity the scheduler takes for the boss
FirstBoss ==
  LET bossIdx == {i \in 1..Len(entities) : entities[i].type = "boss"}
  IN {entities[i].id : i \in {j \in bossIdx : \A k \in bossIdx : j <= k}}

\* visibleAoes: the AoEs the stage draws at the clock
visibleAoes == SelectSeq(aoes, LAMBDA aoe : isAoEVisible(aoe, simulationTimeMs))

\* the scheduler on a scene with two bosses, with the editing of payloads
\* and of the bosses
NextSpawn ==
  \/ importScene(SpawnDoc)
  \/ \E value \in SpawnTimes : SetSimulationTimeMs(value)
  \/ \E id \in Ids(actions), patch \in SpawnPatches : updateAction(id, patch)
  \/ \E id \in FirstBoss : selectEntity(id)
  \/ selection.kind = "entity" /\ updateEntity(selection.id, "position")
  \/ deleteSelected

SpecSpawn == Init /\ [][NextSpawn]_vars

\* the import of texts that lack keys, into a store that was edited
NextFill ==
  \/ \E name \in DOMAIN FillTexts : importSceneOf(name)
  \/ updateArena
  \/ moveBoss
  \/ \E position \in PlacePositions : addAoeAt("circle", position)
  \/ SetSimulationTimeMs(2000)
  \/ Play

SpecFill == Init /\ [][NextFill]_vars

\* the stage drawing an entity on any of the paths, at any of the times
NextMotion ==
  \/ \E points \in MotionPaths, loop \in BOOLEAN :
       importScene(MotionDoc(points, loop))
  \/ \E value \in MotionTimes : SetSimulationTimeMs(value)

SpecMotion == Init /\ [][NextMotion]_vars

\* the ids the Remove buttons were rendered with: those of the actions of
\* now, and those of the default actions, which may be gone
RemovableIds == Ids(actions) \cup Ids(defaultActions)

\* the removing of actions from a scene with fired actions, derived AoEs,
\* their copies, and placed AoEs
NextRemove ==
  \/ \E id \in RemovableIds : removeAction(id)
  \/ \E value \in RemoveTimes : SetSimulationTimeMs(value)
  \/ \E position \in PlacePositions : addAoeAt("circle", position)
  \/ \E id \in Ids(aoes) : selectAoe(id)
  \/ duplicateSelected
  \/ addAction

SpecRemove == Init /\ [][NextRemove]_vars

\* the editing of actions that have fired: a later atMs, another rotation
NextRetime ==
  \/ \E value \in RemoveTimes : SetSimulationTimeMs(value)
  \/ \E id \in Ids(actions), patch \in RetimePatches : updateAction(id, patch)
  \/ \E id \in Ids(actions) : removeAction(id)
  \/ addAction

SpecRetime == Init /\ [][NextRetime]_vars

\* editing while paused, then playback that nothing interrupts: once playing
\* is true only the effect and its frames run
NextLive ==
  \/ ~playing /\ SetSimulationTimeMs(2000)
  \/ ~playing /\ \E id \in Ids(aoes) : selectAoe(id)
  \/ ~playing /\ deleteSelected
  \/ Play
  \/ playbackEffect
  \/ \E delta \in TickDeltas : Tick(delta)

\* the host runs the effect after the render and keeps delivering the frame
\* that is requested
SpecLive ==
  /\ Init
  /\ [][NextLive]_vars
  /\ WF_vars(playbackEffect)
  /\ WF_vars(\E delta \in TickDeltas : Tick(delta))

-----------------------------------------------------------------------------
(* Properties *)

ScrubOps == {"setSimulationTimeMs", "setSimulationTimeMsFn", "tick"}

DerivedIdx(as) == {i \in 1..Len(as) : as[i].sourceActionId # NoId}

UserAoes(as) == SelectSeq(as, LAMBDA a : a.sourceActionId = NoId)

\* a derived AoE without its generated id (and without its zIndex)
View(aoe) ==
  [sourceActionId |-> aoe.sourceActionId, shape |-> aoe.shape,
   shapeParams |-> aoe.shapeParams, position |-> aoe.position,
   rotation |-> aoe.rotation, timing |-> aoe.timing]

CountView(as, v) == Cardinality({i \in DerivedIdx(as) : View(as[i]) = v})

\* the derived AoEs of as1 and of as2 are the same, up to order and ids
SameDerived(as1, as2) ==
  \A v \in {View(as1[i]) : i \in DerivedIdx(as1)}
             \cup {View(as2[i]) : i \in DerivedIdx(as2)} :
    CountView(as1, v) = CountView(as2, v)

\* the same actions, in the same order, with the same executed flags
SameFlags(acts1, acts2) ==
  /\ Len(acts1) = Len(acts2)
  /\ \A i \in 1..Len(acts1) :
       acts1[i].id = acts2[i].id /\ acts1[i].executed = acts2[i].executed

\* how many AoEs carry `id` as sourceActionId
CountSource(as, id) ==
  Cardinality({j \in 1..Len(as) : as[j].sourceActionId = id})

\* the store at time 0 with nothing fired: the start of a direct scrub
FromZero ==
  [actions |-> [i \in 1..Len(actions) |-> [actions[i] EXCEPT !.executed = FALSE]],
   aoes |-> UserAoes(aoes), entities |-> entities, simulationTimeMs |-> 0,
   timelineDurationMs |-> timelineDurationMs, idCounter |-> idCounter]

\* C1: after any sequence of setSimulationTimeMs calls made from a clean
\* time-0 state, the executed actions are exactly those with atMs <= T (T the
\* clock), and flags and derived AoEs (up to ids and order) are those of one
\* scrub from time 0 to T.
C1_ReplayDeterminism ==
  scrubRun \in {"fwd", "any"} =>
    LET direct == SetSimReduce(FromZero, simulationTimeMs)
    IN /\ \A i \in 1..Len(actions) :
            actions[i].executed <=> actions[i].atMs <= simulationTimeMs
       /\ SameFlags(actions, direct.actions)
       /\ SameDerived(aoes, direct.aoes)

\* a scrub to 2000 that came back from a later time where both actions had
\* fired, and re-derived the one AoE due at 2000
C1_Witness ==
  /\ scrubRun = "any"
  /\ lastOp.op = "setSimulationTimeMs" /\ lastOp.arg = 2000
  /\ lastOp.late /\ lastOp.had /\ ~lastOp.rep
  /\ simulationTimeMs = 2000
  /\ NumDerived(aoes) = 1
  /\ \E i \in 1..Len(actions) : ~actions[i].executed /\ actions[i].atMs > 2000
  /\ \E i \in 1..Len(actions) : actions[i].executed

\* C2: an action has executed = true iff some AoE carries its id as
\* sourceActionId, and every AoE with a sourceActionId refers to an action
\* that is present and executed.
C2_ExecutedIffDerived ==
  /\ \A i \in 1..Len(actions) :
       actions[i].executed <=> CountSource(aoes, actions[i].id) > 0
  /\ \A j \in DerivedIdx(aoes) :
       \E i \in 1..Len(actions) :
         actions[i].id = aoes[j].sourceActionId /\ actions[i].executed

\* C3: while the clock only moves forward from a clean time-0 state, an action
\* is executed exactly when its atMs has been reached, and exactly one AoE
\* carries its id from then on (none before).
C3_FiresExactlyOnce ==
  scrubRun = "fwd" =>
    \A i \in 1..Len(actions) :
      /\ actions[i].executed <=> actions[i].atMs <= simulationTimeMs
      /\ CountSource(aoes, actions[i].id) = IF actions[i].executed THEN 1 ELSE 0

\* a forward run of at least two calls after which two actions have fired
C3_Witness ==
  /\ scrubRun = "fwd"
  /\ lastOp.op \in ScrubOps /\ lastOp.late /\ lastOp.had /\ ~lastOp.rep
  /\ Len(actions) >= 2
  /\ \A i \in 1..Len(actions) : actions[i].executed
  /\ NumDerived(aoes) = Len(actions)

\* C4: right after setSimulationTimeMs(T), the same call again returns the
\* same actions, AoEs and clock and creates no id; processActions at the
\* committed time returns its input.
C4_RepeatIsNoOp ==
  lastOp.op \in ScrubOps =>
    LET p == processActions(simulationTimeMs, actions, aoes, entities, idCounter)
        again == SetSimResult(IF lastOp.op = "setSimulationTimeMs"
                              THEN lastOp.arg ELSE simulationTimeMs)
    IN /\ p.actions = actions /\ p.aoes = aoes /\ p.idCounter = idCounter
       /\ again.actions = actions
       /\ again.aoes = aoes
       /\ again.simulationTimeMs = simulationTimeMs
       /\ again.idCounter = idCounter

\* the second of two setSimulationTimeMs(T) calls in a row, with a fired action
C4_Witness ==
  /\ lastOp.op = "setSimulationTimeMs" /\ lastOp.rep
  /\ NumDerived(aoes) > 0
  /\ \E i \in 1..Len(actions) : actions[i].executed

\* C5: 0 <= simulationTimeMs <= timelineDurationMs in every reachable state.
C5_ClockInRange ==
  0 <= simulationTimeMs /\ simulationTimeMs <= timelineDurationMs

\* C6: a setSimulationTimeMs call that does not move the clock back keeps
\* every AoE (the old list is a prefix of the new one) and every executed
\* flag that was true; a call that moves it back leaves the user-placed AoEs,
\* replaces every derived AoE by a newly created one and sets executed to
\* atMs <= T.
C6_ForwardKeepsFiredState ==
  [][lastOp'.op \in ScrubOps =>
       IF simulationTimeMs' >= simulationTimeMs
       THEN /\ Len(aoes') >= Len(aoes)
            /\ SubSeq(aoes', 1, Len(aoes)) = aoes
            /\ Len(actions') = Len(actions)
            /\ \A i \in 1..Len(actions) :
                 actions[i].executed => actions'[i].executed
       ELSE /\ UserAoes(aoes') = UserAoes(aoes)
            /\ \A j \in DerivedIdx(aoes') : aoes'[j].id > idCounter
            /\ \A i \in 1..Len(actions') :
                 actions'[i].executed <=> actions'[i].atMs <= simulationTimeMs'
    ]_vars

\* a forward call that found a derived AoE and left two
C6_Witness ==
  /\ scrubRun = "fwd"
  /\ lastOp.op \in ScrubOps /\ lastOp.late /\ lastOp.had /\ ~lastOp.rep
  /\ NumDerived(aoes) >= 2

\* C7: resetSimulation leaves the clock at 0, playing false, no derived AoE,
\* every action unexecuted and otherwise as it was, and entities, arena,
\* timelineDurationMs and the user-placed AoEs unchanged.
C7_ResetPostcondition ==
  [][lastOp'.op = "resetSimulation" =>
       /\ simulationTimeMs' = 0
       /\ playing' = FALSE
       /\ DerivedIdx(aoes') = {}
       /\ aoes' = UserAoes(aoes)
       /\ Len(actions') = Len(actions)
       /\ \A i \in 1..Len(actions) :
            actions'[i] = [actions[i] EXCEPT !.executed = FALSE]
       /\ entities' = entities
       /\ arena' = arena
       /\ timelineDurationMs' = timelineDurationMs
    ]_vars

\* after a reset that found the clock running late, a derived AoE, and a
\* user-placed AoE that is still there
C7_Witness ==
  /\ lastOp.op = "resetSimulation" /\ lastOp.late /\ lastOp.had
  /\ Len(aoes) > 0

\* C8 as claimed: from a state with the clock above 0, resetSimulation yields
\* the executed flags and derived AoEs of setSimulationTimeMs(0).
C8_ResetEqualsRewindToZero ==
  [][(lastOp'.op = "resetSimulation" /\ simulationTimeMs > 0) =>
       LET r == SetSimResult(0)
       IN SameFlags(actions', r.actions) /\ SameDerived(aoes', r.aoes)
    ]_vars

\* C8 amended: from a state with the clock above 0, resetSimulation leaves no
\* action executed and no derived AoE, while setSimulationTimeMs(0) leaves
\* executed exactly the actions with atMs <= 0, each with one derived AoE; the
\* two agree when every action has atMs > 0.
C8_ResetEqualsRewindUnlessDueAtZero ==
  [][(lastOp'.op = "resetSimulation" /\ simulationTimeMs > 0) =>
       LET r == SetSimResult(0)
       IN /\ \A i \in 1..Len(actions') : ~actions'[i].executed
          /\ DerivedIdx(aoes') = {}
          /\ Len(r.actions) = Len(actions)
          /\ \A i \in 1..Len(actions) :
               /\ r.actions[i].executed <=> actions[i].atMs <= 0
               /\ CountSource(r.aoes, actions[i].id) =
                    IF actions[i].atMs <= 0 THEN 1 ELSE 0
          /\ (\A i \in 1..Len(actions) : actions[i].atMs > 0) =>
               SameFlags(actions', r.actions) /\ SameDerived(aoes', r.aoes)
    ]_vars

\* after a reset from a late clock with a derived AoE, all actions being
\* later than 0
C8_Witness ==
  /\ lastOp.op = "resetSimulation" /\ lastOp.late /\ lastOp.had
  /\ Len(actions) > 0
  /\ \A i \in 1..Len(actions) : actions[i].atMs > 0

\* what C9 says of the value exportScene returns
ExportOk ==
  LET e == exportScene
  IN /\ DerivedIdx(e.aoes) = {}
     /\ e.aoes = UserAoes(aoes)
     /\ Len(e.actions) = Len(actions)
     /\ \A i \in 1..Len(actions) :
          e.actions[i] = [actions[i] EXCEPT !.executed = FALSE]
     /\ e.arena = arena /\ e.entities = entities
     /\ e.timelineDurationMs = timelineDurationMs

\* C9: in every state the value of exportScene has no AoE with a
\* sourceActionId, has the other AoEs unchanged and in order, has executed =
\* false on every action; a call of exportScene leaves the store unchanged.
C9_ExportStripsDerived ==
  [][/\ ExportOk
     /\ ExportOk'
     /\ lastOp'.op = "exportScene" => UNCHANGED <<storeVars, idCounter>>
    ]_vars

\* after an export from a store that holds a derived AoE, a user-placed AoE
\* and an executed action
C9_Witness ==
  /\ lastOp.op = "exportScene"
  /\ NumDerived(aoes) > 0
  /\ UserAoes(aoes) # <<>>
  /\ \E i \in 1..Len(actions) : actions[i].executed

\* C10: importing the text of an export and exporting again returns the same
\* value.
C10_RoundTrip ==
  [][lastOp'.op = "importExported" => exportScene' = exportScene]_vars

\* after a round trip that reset the clock, with an entity on a path and an
\* edited arena
C10_Witness ==
  /\ lastOp.op = "importExported"
  /\ \E i \in 1..Len(entities) : entities[i].motion.kind = "path"
  /\ arena.shape = "rect"
  /\ Len(actions) > 0

\* C11: after every importScene that succeeds, whatever the store held and
\* whatever the text holds: the clock is 0, playing is false, no AoE carries a
\* sourceActionId, no action is executed, every entity has a motion, selection
\* and placement are null.
C11_ImportPostcondition ==
  [][lastOp'.op \in {"importScene", "importExported"} =>
       /\ simulationTimeMs' = 0
       /\ playing' = FALSE
       /\ DerivedIdx(aoes') = {}
       /\ \A i \in 1..Len(actions') : ~actions'[i].executed
       /\ \A i \in 1..Len(entities') :
            /\ "motion" \in DOMAIN entities'[i]
            /\ entities'[i].motion # Absent
            /\ entities'[i].motion.kind \in {"none", "path"}
       /\ selection' = NoSelection
       /\ placement' = "null"
    ]_vars

\* the stored scene (an entity without a motion key, a derived AoE, an
\* executed action) imported into a store in which ids had been created
C11_Witness ==
  /\ lastOp.op = "importScene"
  /\ idCounter > InitialIdCounter
  /\ Len(entities) = 1 /\ entities[1].id = 101 /\ entities[1].motion = MotionNone
  /\ Len(aoes) = 1 /\ aoes[1].id = 102
  /\ Len(actions) = 1 /\ actions[1].id = 104

\* the text parses to an object whose entities, aoes, actions can be mapped
Parses(raw) == raw.valid /\ ~raw.isNull /\ raw.notArray = {}

\* the store holds the whole of the document `raw`
HoldsDocument(raw, ar, ents, as, acts, duration, time) ==
  /\ ar = IF "arena" \in raw.has THEN raw.arena ELSE defaultArena
  /\ Ids(ents) = IF "entities" \in raw.has THEN Ids(raw.entities)
                 ELSE Ids(defaultEntities)
  /\ Ids(as) = IF "aoes" \in raw.has
               THEN {raw.aoes[i].id :
                       i \in (1..Len(raw.aoes)) \ DerivedIdx(raw.aoes)}
               ELSE {}
  /\ Ids(acts) = IF "actions" \in raw.has THEN Ids(raw.actions) ELSE {}
  /\ duration = IF "timelineDurationMs" \in raw.has
                THEN raw.timelineDurationMs ELSE TimelineDefaultMs
  /\ time = 0

\* C12: an importScene whose text is no JSON, or parses to null or to an
\* object with a non-array where a list is read, changes no field of the
\* store; any other importScene leaves arena, entities, aoes, actions,
\* timelineDurationMs and the clock all taken from one document.
C12_ImportAllOrNothing ==
  [][/\ lastOp'.op = "importRejected" => UNCHANGED <<storeVars, idCounter>>
     /\ lastOp'.op = "importScene" =>
          \E raw \in ImportTexts \cup RejectedTexts :
            /\ Parses(raw)
            /\ HoldsDocument(raw, arena', entities', aoes', actions',
                             timelineDurationMs', simulationTimeMs')
    ]_vars

\* a text with a non-array was rejected by a store that is past time 0 and
\* holds a derived AoE
C12_Witness ==
  /\ lastOp.op = "importRejected" /\ lastOp.arg = 3
  /\ simulationTimeMs > 0
  /\ NumDerived(aoes) > 0
  /\ arena = defaultArena /\ timelineDurationMs = TimelineDefaultMs

KeyframeOps == {"applyEntityDrag", "addKeyframeAtTime", "keyframeAtMsChange"}

IsSorted(points) ==
  \A i \in 1..(Len(points) - 1) : points[i].atMs <= points[i + 1].atMs

\* the same points, each as many times, in any order
SamePoints(p, q) ==
  /\ Len(p) = Len(q)
  /\ \A v \in SeqToSet(p) \cup SeqToSet(q) :
       Cardinality({i \in 1..Len(p) : p[i] = v})
         = Cardinality({i \in 1..Len(q) : q[i] = v})

RemoveAt(points, k) ==
  SubSeq(points, 1, k - 1) \o SubSeq(points, k + 1, Len(points))

\* the points the motion of an entity stores
StoredPoints(entity) ==
  IF entity.motion.kind = "path" THEN entity.motion.points ELSE <<>>

\* C13: the points written by a drag in path-edit mode, by "add keyframe at
\* current time" and by an edit of a keyframe's atMs are non-decreasing in
\* atMs and are the intended points, each once: the old points with one moved
\* or re-timed, or the old points and the new one.
C13_KeyframeEditsKeepSorted ==
  [][lastOp'.op \in KeyframeOps =>
       LET id == lastOp'.arg
           stored == Find(entities, id).motion
           old == PointsOf(normalizeMotion(stored))
           new == Find(entities', id).motion
           T == simulationTimeMs
       IN (\/ toolMode = "path"
           \/ stored.kind = "path"
           \/ lastOp'.op # "applyEntityDrag") =>
            /\ new.kind = "path"
            /\ IsSorted(new.points)
            /\ CASE lastOp'.op = "applyEntityDrag" ->
                      \E position \in DragPositions :
                        \/ \E k \in 1..Len(old) :
                             SamePoints(new.points,
                               [old EXCEPT ![k] =
                                  MotionPoint(position.x, position.y, @.atMs)])
                        \/ SamePoints(new.points,
                             Append(old, MotionPoint(position.x, position.y, T)))
                 [] lastOp'.op = "addKeyframeAtTime" ->
                      \E k \in 1..Len(new.points) :
                        /\ new.points[k].atMs = T
                        /\ SamePoints(RemoveAt(new.points, k), old)
                 [] lastOp'.op = "keyframeAtMsChange" ->
                      \E k \in 1..Len(old), value \in KeyframeTimes :
                        SamePoints(new.points,
                                   [old EXCEPT ![k].atMs = value])
    ]_vars

\* the atMs of the second row was set to 0 and the row moved to the front
C13_Witness ==
  /\ lastOp.op = "keyframeAtMsChange"
  /\ LET points == StoredPoints(Find(entities, lastOp.arg))
     IN /\ Len(points) = 3
        /\ points[1] = MotionPoint(100, 0, 0)
        /\ points[2] = MotionPoint(0, 0, 200)
        /\ points[3].atMs = 1000

\* C14: in every reachable state the points of every path motion are stored
\* in non-decreasing order of atMs.
C14_StoredPointsSorted ==
  \A i \in 1..Len(entities) : IsSorted(StoredPoints(entities[i]))

\* the points of atMs = v, in their order
AtTime(points, v) == SelectSeq(points, LAMBDA point : point.atMs = v)

\* C15: for the motion of every entity of every reachable state, and for no
\* motion and a motion of kind none: normalizing twice gives what normalizing
\* once gives; a path keeps its points, sorted by atMs, points of equal atMs
\* in their order.
C15_NormalizeIdempotent ==
  /\ normalizeMotion(normalizeMotion(Absent)) = normalizeMotion(Absent)
  /\ normalizeMotion(normalizeMotion(MotionNone)) = normalizeMotion(MotionNone)
  /\ \A i \in 1..Len(entities) :
       LET m == entities[i].motion
           n == normalizeMotion(m)
       IN /\ normalizeMotion(n) = n
          /\ m.kind = "path" =>
               /\ n.kind = "path"
               /\ SamePoints(n.points, m.points)
               /\ IsSorted(n.points)
               /\ \A k \in 1..Len(m.points) :
                    AtTime(n.points, m.points[k].atMs)
                      = AtTime(m.points, m.points[k].atMs)

\* a drag has written the normalized form of the path that was imported out
\* of order: the keyframe near the clock moved, the two of atMs 1000 behind
\* it in the order they had
C15_Witness ==
  /\ lastOp.op = "applyEntityDrag" /\ lastOp.arg = 101 /\ lastOp.had
  /\ LET points == StoredPoints(Find(entities, 101))
     IN /\ Len(points) = 3
        /\ points[1] = MotionPoint(100, 0, 200)
        /\ points[2] = MotionPoint(100, 0, 1000)
        /\ points[3] = MotionPoint(100, 100, 1000)

\* |atMs - T| <= 250
Within250(point, T) == point.atMs - T <= 250 /\ T - point.atMs <= 250

\* C16: a drag in path-edit mode at time T with a keyframe within 250 of T
\* sets the x and y of one such keyframe to the dragged coordinates and
\* leaves its atMs, every other keyframe and the number of points.
C16_DragMovesNearKeyframe ==
  [][lastOp'.op = "applyEntityDrag" =>
       LET id == lastOp'.arg
           old == PointsOf(normalizeMotion(Find(entities, id).motion))
           new == Find(entities', id)
           T == simulationTimeMs
       IN (\E k \in 1..Len(old) : Within250(old[k], T)) =>
            /\ new.motion.kind = "path"
            /\ Len(new.motion.points) = Len(old)
            /\ new.position \in DragPositions
            /\ \E k \in 1..Len(old) :
                 /\ Within250(old[k], T)
                 /\ new.motion.points =
                      [old EXCEPT ![k] = MotionPoint(new.position.x,
                                                     new.position.y, @.atMs)]
    ]_vars

\* a drag at time 0 moved the keyframe of atMs 200 and left the two others
C16_Witness ==
  /\ lastOp.op = "applyEntityDrag" /\ lastOp.had
  /\ simulationTimeMs = 0
  /\ LET entity == Find(entities, lastOp.arg)
     IN /\ Len(StoredPoints(entity)) = 3
        /\ StoredPoints(entity)[1] = MotionPoint(100, 0, 200)
        /\ entity.position = Vec(100, 0)

\* C17: a drag in path-edit mode at time T with no keyframe within 250 of T
\* adds the one point {x, y, atMs = T} of the dragged coordinates and keeps
\* every other point; an entity of motion none becomes a one-point path.
C17_DragAddsKeyframe ==
  [][lastOp'.op = "applyEntityDrag" =>
       LET id == lastOp'.arg
           stored == Find(entities, id).motion
           old == PointsOf(normalizeMotion(stored))
           new == Find(entities', id)
           T == simulationTimeMs
       IN ((toolMode = "path" \/ stored.kind = "path")
             /\ \A k \in 1..Len(old) : ~Within250(old[k], T)) =>
            /\ new.motion.kind = "path"
            /\ Len(new.motion.points) = Len(old) + 1
            /\ new.position \in DragPositions
            /\ \E k \in 1..Len(new.motion.points) :
                 /\ new.motion.points[k] =
                      MotionPoint(new.position.x, new.position.y, T)
                 /\ RemoveAt(new.motion.points, k) = old
    ]_vars

\* a drag at time 1000 added a second keyframe behind the one of time 0
C17_Witness ==
  /\ lastOp.op = "applyEntityDrag" /\ ~lastOp.had
  /\ simulationTimeMs = 1000
  /\ LET points == StoredPoints(Find(entities, lastOp.arg))
     IN /\ Len(points) = 2
        /\ points[1].atMs = 0
        /\ points[2] = MotionPoint(100, 0, 1000)

\* two positions given as fractions are the same position
SamePosition(p, q) == p.x * q.d = q.x * p.d /\ p.y * q.d = q.y * p.d

\* the entities that move on a path with a keyframe
OnPath == {i \in 1..Len(entities) : StoredPoints(entities[i]) # <<>>}

\* the keyframes of entity i in order of time, its first and last
Keyframes(i) == normalizeMotion(entities[i].motion).points
FirstOf(i) == Keyframes(i)[1]
LastOf(i) == Keyframes(i)[Len(Keyframes(i))]

\* the position of entity i at time t
PositionAt(i, t) ==
  getMotionPosition(normalizeMotion(entities[i].motion), entities[i].position, t)

\* C18 as claimed: the fallback for motion none or no points; the first
\* keyframe for every t <= first.atMs; the last keyframe for every
\* t >= last.atMs when loop is false or last.atMs = first.atMs.
C18_HoldsAtEnds ==
  \A i \in 1..Len(entities), t \in QueryTimes :
    IF i \notin OnPath
    THEN PositionAt(i, t) = Exact(entities[i].position)
    ELSE /\ t <= FirstOf(i).atMs => PositionAt(i, t) = Exact(FirstOf(i))
         /\ (/\ t >= LastOf(i).atMs
             /\ \/ ~LoopOf(entities[i].motion)
                \/ LastOf(i).atMs = FirstOf(i).atMs) =>
              PositionAt(i, t) = Exact(LastOf(i))

\* C18 amended: the fallback for motion none or no points; the first keyframe
\* for every t <= first.atMs; the last keyframe for every t >= last.atMs that
\* is above first.atMs, when loop is false or last.atMs = first.atMs.
C18_HoldsAtEndsFirstWins ==
  \A i \in 1..Len(entities), t \in QueryTimes :
    IF i \notin OnPath
    THEN PositionAt(i, t) = Exact(entities[i].position)
    ELSE /\ t <= FirstOf(i).atMs => PositionAt(i, t) = Exact(FirstOf(i))
         /\ (/\ t >= LastOf(i).atMs
             /\ t > FirstOf(i).atMs
             /\ \/ ~LoopOf(entities[i].motion)
                \/ LastOf(i).atMs = FirstOf(i).atMs) =>
              PositionAt(i, t) = Exact(LastOf(i))

\* the keyframe of time 200 was deleted: two keyframes are left, both at
\* time 1000, at different places
C18_Witness ==
  /\ lastOp.op = "keyframeDelete"
  /\ \E i \in OnPath :
       /\ Len(Keyframes(i)) = 2
       /\ FirstOf(i).atMs = LastOf(i).atMs
       /\ FirstOf(i) # LastOf(i)
       /\ FirstOf(i).atMs \in QueryTimes

\* C19: on a looping path with last.atMs > first.atMs, the position at
\* t >= last.atMs is the position at first.atMs + ((t - first.atMs) mod
\* (last.atMs - first.atMs)), a time in [first.atMs, last.atMs); it is the
\* position one period later; at t = last.atMs it is the first keyframe.
C19_LoopWraps ==
  \A i \in OnPath, t \in QueryTimes :
    LET first == FirstOf(i).atMs
        last == LastOf(i).atMs
    IN (LoopOf(entities[i].motion) /\ last > first /\ t >= last) =>
         LET wrapped == first + ((t - first) % (last - first))
         IN /\ first <= wrapped /\ wrapped < last
            /\ SamePosition(PositionAt(i, t), PositionAt(i, wrapped))
            /\ SamePosition(PositionAt(i, t + (last - first)), PositionAt(i, t))
            /\ t = last => SamePosition(PositionAt(i, t), Exact(FirstOf(i)))

\* the Loop box was ticked on a path from time 200 to time 1000 whose ends
\* are at different places
C19_Witness ==
  /\ lastOp.op = "loopChange"
  /\ \E i \in OnPath :
       /\ LoopOf(entities[i].motion)
       /\ FirstOf(i).atMs = 200 /\ LastOf(i).atMs = 1000
       /\ FirstOf(i).x # Keyframes(i)[2].x

\* C20: at a time t strictly between first.atMs and last.atMs the position is
\* a.x + (b.x - a.x)(t - a.atMs)/(b.atMs - a.atMs), and y likewise, for a
\* pair of consecutive keyframes a, b with a.atMs <= t <= b.atMs; at the atMs
\* of one keyframe only it is that keyframe; keyframes (0; 0, 0) and
\* (1000; 100, 0) give (50, 0) at t = 500.
C20_InterpolatesLinearly ==
  /\ SamePosition(
       getMotionPosition(PathMotion(<<MotionPoint(0, 0, 0),
                                      MotionPoint(100, 0, 1000)>>, FALSE, FALSE),
                         Vec(7, 7), 500),
       Exact(Vec(50, 0)))
  /\ \A i \in OnPath, t \in QueryTimes :
       (FirstOf(i).atMs < t /\ t < LastOf(i).atMs) =>
         LET r == PositionAt(i, t)
             points == Keyframes(i)
         IN /\ \E k \in 1..(Len(points) - 1) :
                 LET a == points[k]
                     b == points[k + 1]
                     span == b.atMs - a.atMs
                 IN /\ a.atMs <= t /\ t <= b.atMs /\ span > 0
                    /\ r.x * span = r.d * (a.x * span + (b.x - a.x) * (t - a.atMs))
                    /\ r.y * span = r.d * (a.y * span + (b.y - a.y) * (t - a.atMs))
            /\ \A k \in 1..Len(points) :
                 (/\ points[k].atMs = t
                  /\ \A j \in 1..Len(points) : points[j].atMs = t => j = k) =>
                   SamePosition(r, Exact(points[k]))

\* the atMs of a row was edited and left three keyframes at three times,
\* the middle one at a time that is asked for, at three different places
C20_Witness ==
  \E i \in OnPath :
    /\ lastOp.op = "keyframeAtMsChange"
    /\ Len(Keyframes(i)) = 3
    /\ Keyframes(i)[1].atMs < Keyframes(i)[2].atMs
    /\ Keyframes(i)[2].atMs < Keyframes(i)[3].atMs
    /\ Keyframes(i)[2].atMs \in QueryTimes
    /\ Keyframes(i)[1].x # Keyframes(i)[2].x
    /\ Keyframes(i)[2].y # Keyframes(i)[3].y

\* the times from a to b
Interval(a, b) == {t \in VisibleTimes : a <= t /\ t <= b}

\* the times of VisibleTimes at which the AoE is visible
VisibleAt(aoe) == {t \in VisibleTimes : isAoEVisible(aoe, t)}

\* C21: an AoE is visible exactly at the times from startAtMs + delayMs to
\* startAtMs + delayMs + durationMs, both included (1200 to 1700 for
\* 1000, 200, 500; not at 1199, not at 1701); an AoE of negative durationMs
\* is visible at no time; the stage draws the AoEs visible at the clock.
C21_VisibleInterval ==
  /\ \A i \in 1..Len(aoes) :
       LET timing == aoes[i].timing
           start == timing.startAtMs + timing.delayMs
       IN /\ VisibleAt(aoes[i]) = Interval(start, start + timing.durationMs)
          /\ timing.durationMs < 0 => VisibleAt(aoes[i]) = {}
          /\ (timing.startAtMs = 1000 /\ timing.delayMs = 200
                /\ timing.durationMs = 500) =>
               /\ {1200, 1450, 1700} \subseteq VisibleAt(aoes[i])
               /\ VisibleAt(aoes[i]) \cap {1199, 1701} = {}
  /\ \A i \in 1..Len(aoes) :
       (\E j \in 1..Len(visibleAoes) : visibleAoes[j] = aoes[i])
         <=> LET timing == aoes[i].timing
             IN /\ timing.startAtMs + timing.delayMs <= simulationTimeMs
                /\ simulationTimeMs
                     <= timing.startAtMs + timing.delayMs + timing.durationMs

\* at time 2000 the store holds the AoE of 1000, 200, 500, which the stage
\* no longer draws, and an AoE of negative durationMs
C21_Witness ==
  /\ lastOp.op = "setSimulationTimeMs" /\ simulationTimeMs = 2000
  /\ \E i \in 1..Len(aoes) :
       aoes[i].timing = [startAtMs |-> 1000, delayMs |-> 200, durationMs |-> 500]
  /\ \E i \in 1..Len(aoes) : aoes[i].timing.durationMs < 0
  /\ Len(visibleAoes) < Len(aoes)

\* C22: while playing is false (after pause, resetSimulation or importScene)
\* no frame callback changes the clock: the time a scrub has set stays until
\* playback is started again.
C22_NoTickAfterStop ==
  [][(~playing /\ lastOp'.op = "tick") =>
       simulationTimeMs' = simulationTimeMs]_vars

\* C23: a frame does not stop playback; a frame that follows a frame which
\* left the clock at timelineDurationMs leaves the clock there and leaves
\* actions and aoes as they are.
C23_HoldsAtEnd ==
  [][lastOp'.op = "tick" =>
       /\ playing' = playing
       /\ (lastOp.op = "tick" /\ simulationTimeMs = timelineDurationMs) =>
            /\ simulationTimeMs' = timelineDurationMs
            /\ actions' = actions
            /\ aoes' = aoes
    ]_vars

\* the second frame of 4000 ms at the end of the timeline, while playing, with
\* both actions fired
C23_Witness ==
  /\ lastOp.op = "tick" /\ lastOp.rep /\ lastOp.arg = 4000
  /\ playing
  /\ simulationTimeMs = timelineDurationMs
  /\ NumDerived(aoes) = 2

ClockOps ==
  {"setSimulationTimeMs", "setSimulationTimeMsFn", "tick", "play", "pause",
   "resetSimulation"}

\* C28: a scrub, a frame, play, pause and resetSimulation leave the AoEs
\* without sourceActionId (the same AoEs, in the same order, with the same
\* fields), the entities and the arena.
C28_ClockLeavesUserAoes ==
  [][lastOp'.op \in ClockOps =>
       /\ UserAoes(aoes') = UserAoes(aoes)
       /\ entities' = entities
       /\ arena' = arena
    ]_vars

\* a scrub back in time has replaced the derived AoE that stood behind a
\* user-placed AoE
C28_Witness ==
  /\ lastOp.op = "setSimulationTimeMs" /\ lastOp.late /\ lastOp.had
  /\ Len(aoes) = 2
  /\ aoes[1].sourceActionId = NoId
  /\ aoes[2].sourceActionId # NoId
  /\ aoes[2].id > aoes[1].id + 1

FrontOps ==
  {"selectEntity", "selectAoe", "addEntityAt", "addAoeAt", "duplicateSelected"}

\* the highest of 0 and the zIndex of every item
TopZ(items) ==
  CHOOSE m \in {0} \cup {items[i].zIndex : i \in 1..Len(items)} :
    /\ m >= 0
    /\ \A i \in 1..Len(items) : m >= items[i].zIndex

\* `after` is `before` with the item `id` brought to the front: selected in
\* place, or added at the end
BroughtToFront(before, after, id) ==
  /\ \E k \in 1..Len(after) :
       /\ after[k].id = id
       /\ after[k].zIndex = 1 + TopZ(before)
       /\ \A j \in 1..Len(after) : j # k => after[j].zIndex < after[k].zIndex
  /\ Len(after) \in {Len(before), Len(before) + 1}
  /\ \A j \in 1..Len(before) :
       before[j].id # id => after[j] = before[j]

\* C24: after selectEntity, selectAoe, addEntityAt, addAoeAt and
\* duplicateSelected the selected, placed or copied item has zIndex 1 +
\* max(0, the zIndex of every item of its kind before), above every other
\* item of its kind, and no other item has changed.
C24_BringToFront ==
  [][lastOp'.op \in FrontOps =>
       IF selection'.kind = "entity"
       THEN BroughtToFront(entities, entities', selection'.id) /\ aoes' = aoes
       ELSE BroughtToFront(aoes, aoes', selection'.id) /\ entities' = entities
    ]_vars

\* the copy of an entity that had been selected, in a scene whose only
\* zIndex was negative at first
C24_Witness ==
  /\ lastOp.op = "duplicateSelected"
  /\ selection.kind = "entity"
  /\ Len(entities) = 2
  /\ entities[1].id = 101 /\ entities[1].zIndex = 1
  /\ entities[2].zIndex = 2

Distinct(items) ==
  \A i, j \in 1..Len(items) : items[i].id = items[j].id => i = j

AllIds(ents, as, acts) == Ids(ents) \cup Ids(as) \cup Ids(acts)

\* C25: the ids of the entities, of the AoEs and of the actions are pairwise
\* distinct; every id in the store that createId made is at most the counter;
\* every id that appears with a step other than an import is above the
\* counter of before, hence above every id made before, deleted or not.
C25_IdsNeverReused ==
  [][/\ Distinct(entities') /\ Distinct(aoes') /\ Distinct(actions')
     /\ \A id \in AllIds(entities, aoes, actions) :
          id <= 100 => id <= idCounter
     /\ lastOp'.op # "importScene" =>
          \A id \in AllIds(entities', aoes', actions')
                       \ AllIds(entities, aoes, actions) :
            id > idCounter /\ id <= idCounter'
     /\ idCounter' >= idCounter
    ]_vars

\* an AoE placed after two ids had been made and their AoEs dropped or deleted
C25_Witness ==
  /\ lastOp.op = "addAoeAt"
  /\ idCounter = InitialIdCounter + 3
  /\ Len(aoes) = 1
  /\ aoes[1].id = idCounter

\* the stored position of the first entity of type boss, the origin if none
BossPosition(ents) ==
  LET isFirstBoss(k) ==
        /\ ents[k].type = "boss"
        /\ \A j \in 1..(k - 1) : ents[j].type # "boss"
  IN IF \E k \in 1..Len(ents) : isFirstBoss(k)
     THEN ents[CHOOSE k \in 1..Len(ents) : isFirstBoss(k)].position
     ELSE Vec(0, 0)

\* the position C26 gives the AoE of `action`
SpawnPosition(action, ents) ==
  LET payload == action.payload
      position == IF payload.position = Absent THEN Vec(0, 0)
                  ELSE payload.position
      offset == IF payload.offset = Absent THEN Vec(0, 0) ELSE payload.offset
  IN IF payload.positionMode = "position" THEN position
     ELSE Vec(BossPosition(ents).x + offset.x, BossPosition(ents).y + offset.y)

\* C26: every AoE a scrub creates carries the id of an action as
\* sourceActionId, has startAtMs = the action's atMs (whatever the target
\* time), delayMs and durationMs, shape, shapeParams and rotation of the
\* payload, and stands at payload.position (the origin if unset) in position
\* mode, at the stored position of the first boss (the origin if none) plus
\* payload.offset in offset mode.
C26_SpawnedAoeFields ==
  [][lastOp'.op \in ScrubOps =>
       \A j \in 1..Len(aoes') :
         aoes'[j].id > idCounter =>
           \E i \in 1..Len(actions) :
             LET action == actions[i]
                 payload == action.payload
             IN /\ actions'[i].executed
                /\ aoes'[j].sourceActionId = action.id
                /\ aoes'[j].timing = [startAtMs |-> action.atMs,
                                      delayMs |-> payload.delayMs,
                                      durationMs |-> payload.durationMs]
                /\ aoes'[j].shape = payload.shape
                /\ aoes'[j].shapeParams = payload.shapeParams
                /\ aoes'[j].rotation = payload.rotation
                /\ aoes'[j].position = SpawnPosition(action, entities)
    ]_vars

\* the offset-mode action of atMs 1000 has fired at time 2000 in the scene of
\* two bosses, the first of which stands at (10, 0), off its path
C26_Witness ==
  /\ lastOp.op = "setSimulationTimeMs" /\ simulationTimeMs = 2000
  /\ Len(entities) = 3 /\ entities[2].id = 102
  /\ entities[2].position = Vec(10, 0)
  /\ \E j \in 1..Len(aoes) :
       /\ aoes[j].sourceActionId = 104
       /\ aoes[j].timing.startAtMs = 1000
       /\ aoes[j].position = Vec(15, 5)

\* C27: a scrub to a time at or after the atMs of an offset-mode action that
\* has fired leaves the AoE of that action where it was, wherever the boss is
\* now; moving the boss moves no AoE.
C27_SpawnPositionIsSnapshot ==
  [][/\ lastOp'.op \in ScrubOps =>
          \A j \in DerivedIdx(aoes), i \in 1..Len(actions) :
            (/\ actions[i].id = aoes[j].sourceActionId
             /\ actions[i].executed
             /\ actions[i].payload.positionMode = "offset"
             /\ actions[i].atMs <= simulationTimeMs') =>
              \E k \in DerivedIdx(aoes') :
                /\ aoes'[k].sourceActionId = aoes[j].sourceActionId
                /\ aoes'[k].position = aoes[j].position
     /\ lastOp'.op = "updateEntity" => aoes' = aoes
    ]_vars

DerivedAoes(as) == SelectSeq(as, LAMBDA a : a.sourceActionId # NoId)

\* C29: addAoeAt, updateAoe, deleteSelected and duplicateSelected leave the
\* AoEs that carry a sourceActionId: none is made, changed or deleted.
C29_DerivedNotAuthorable ==
  [][lastOp'.op \in {"addAoeAt", "updateAoe", "deleteSelected",
                     "duplicateSelected"} =>
       DerivedAoes(aoes') = DerivedAoes(aoes)]_vars

\* C30: a scrub appends the AoEs of the actions it fires behind the AoEs it
\* keeps (all of them, or the user-placed ones when it goes back in time),
\* one for each fired action, in the order of the actions list.
C30_AppendedInListOrder ==
  [][lastOp'.op \in ScrubOps =>
       LET back == simulationTimeMs' < simulationTimeMs
           kept == IF back THEN UserAoes(aoes) ELSE aoes
           fired == SelectSeq(actions,
                      LAMBDA a : /\ a.atMs <= simulationTimeMs'
                                 /\ back \/ ~a.executed)
       IN /\ Len(aoes') = Len(kept) + Len(fired)
          /\ SubSeq(aoes', 1, Len(kept)) = kept
          /\ \A k \in 1..Len(fired) :
               aoes'[Len(kept) + k].sourceActionId = fired[k].id
    ]_vars

\* one scrub has fired the action of atMs 1000 and, behind it, the action of
\* atMs 0 that follows it in the list
C30_Witness ==
  /\ lastOp.op = "setSimulationTimeMs"
  /\ Len(actions) = 2
  /\ actions[1].atMs > actions[2].atMs
  /\ Len(aoes) >= 2
  /\ aoes[Len(aoes) - 1].sourceActionId = actions[1].id
  /\ aoes[Len(aoes)].sourceActionId = actions[2].id
  /\ aoes[Len(aoes)].id = aoes[Len(aoes) - 1].id + 1

\* the entities of the text `raw` as importScene installs them: a missing
\* motion becomes { kind: 'none' }, a motion that is there is kept
FilledEntities(raw, ents) ==
  /\ Len(ents) = Len(raw.entities)
  /\ \A i \in 1..Len(ents) :
       ents[i] = IF raw.entities[i].motion = Absent
                 THEN [raw.entities[i] EXCEPT !.motion = [kind |-> "none"]]
                 ELSE raw.entities[i]

\* the default scene: one boss at the origin and two players
IsDefaultScene(ents) ==
  /\ Len(ents) = 3
  /\ ents[1].type = "boss" /\ ents[1].position = Vec(0, 0)
  /\ ents[2].type = "player" /\ ents[3].type = "player"
  /\ \A i \in 1..3 : ents[i].motion = [kind |-> "none"]

\* arena and entities after the import of `raw`
FilledDefaults(raw, ar, ents) ==
  /\ IF "arena" \in raw.has THEN ar = raw.arena
     ELSE ar.shape = "circle" /\ ar.radius = 320
  /\ IF "entities" \in raw.has THEN FilledEntities(raw, ents)
     ELSE IsDefaultScene(ents)

\* C31 as stated: importScene gives a text without arena the default arena
\* (circle, radius 320) and a text without entities the three default
\* entities, gives { kind: 'none' } to every entity without a motion and
\* keeps the motion of the others, and installs each of arena, entities,
\* aoes, actions, timelineDurationMs that the text holds as the text gives it.
C31_FillsMissingInstallsGiven ==
  [][\A name \in DOMAIN FillTexts :
       lastOp'.op = name =>
         LET raw == FillTexts[name]
         IN /\ FilledDefaults(raw, arena', entities')
            /\ "aoes" \in raw.has => aoes' = raw.aoes
            /\ "actions" \in raw.has => actions' = raw.actions
            /\ "timelineDurationMs" \in raw.has =>
                 timelineDurationMs' = raw.timelineDurationMs
    ]_vars

\* C31 (amended): as above for arena, entities and timelineDurationMs; the
\* aoes of the text are installed without those that carry a sourceActionId,
\* and its actions with executed false.
C31_FillsMissingInstallsNormalized ==
  [][\A name \in DOMAIN FillTexts :
       lastOp'.op = name =>
         LET raw == FillTexts[name]
         IN /\ FilledDefaults(raw, arena', entities')
            /\ "aoes" \in raw.has =>
                 aoes' = SelectSeq(raw.aoes, LAMBDA item : item.sourceActionId = NoId)
            /\ "actions" \in raw.has =>
                 /\ Len(actions') = Len(raw.actions)
                 /\ \A i \in 1..Len(actions') :
                      actions'[i] = [raw.actions[i] EXCEPT !.executed = FALSE]
            /\ "timelineDurationMs" \in raw.has =>
                 timelineDurationMs' = raw.timelineDurationMs
    ]_vars

\* the text with an arena and entities was imported after an AoE had been
\* placed: the boss without a motion has none, the player keeps its path
C31_Witness ==
  /\ lastOp.op = "mixed"
  /\ idCounter > InitialIdCounter
  /\ arena.shape = "rect"
  /\ entities[1].motion = [kind |-> "none"]
  /\ entities[2].motion.kind = "path" /\ entities[2].motion.points[1].atMs = 1000
  /\ aoes = <<>>

\* C32: a drag edits or inserts a keyframe only when the dragged entity has a
\* path motion and the tool mode is path-edit; in select mode, or on an
\* entity of motion none, it changes the position of the entity and nothing
\* else of it.
C32_KeyframeOnlyOnPathInPathMode ==
  [][lastOp'.op = "applyEntityDrag" =>
       LET id == lastOp'.arg
           old == Find(entities, id)
           new == Find(entities', id)
       IN (toolMode = "select" \/ normalizeMotion(old.motion).kind = "none") =>
            /\ new.motion = old.motion
            /\ new = [old EXCEPT !.position = new.position]
    ]_vars

\* displayPosition of entity i: where the stage draws it at the clock
displayPosition(i) == PositionAt(i, simulationTimeMs)

\* the keyframes of entity i at time t, by their place in Keyframes(i)
TiedAt(i, t) == {k \in 1..Len(Keyframes(i)) : Keyframes(i)[k].atMs = t}

\* the lowest of a set of places
Lowest(S) == CHOOSE k \in S : \A j \in S : k <= j

\* a looping path queried at a time that wraps onto a span of length zero
WrapsOntoZeroSpan(i, t) ==
  /\ LoopOf(entities[i].motion)
  /\ LastOf(i).atMs > FirstOf(i).atMs
  /\ t >= LastOf(i).atMs
  /\ (t - FirstOf(i).atMs) % (LastOf(i).atMs - FirstOf(i).atMs) = 0
  /\ Keyframes(i)[2].atMs = FirstOf(i).atMs

\* C33 as stated: on a path with keyframes of equal atMs the drawn position
\* is defined (nothing is divided by zero); a span of length zero gives the
\* position of its earlier point; at a time equal to a tied atMs the position
\* is that of the first of the tied keyframes in array order.
C33_TiesFirstInArrayOrder ==
  \A i \in OnPath :
    LET t == simulationTimeMs
        r == displayPosition(i)
    IN /\ r.d > 0
       /\ WrapsOntoZeroSpan(i, t) => r = Exact(FirstOf(i))
       /\ Cardinality(TiedAt(i, t)) >= 2 =>
            SamePosition(r, Exact(Keyframes(i)[Lowest(TiedAt(i, t))]))

\* C33 (amended): defined, and a span of length zero gives its earlier point,
\* as above; at a time equal to a tied atMs below last.atMs, or equal to
\* first.atMs, the position is that of the first of the tied keyframes in
\* array order; at a tie at last.atMs above first.atMs it is that of the last
\* keyframe without loop, and that of the first keyframe of the path with
\* loop.
C33_TiesByArrayOrder ==
  \A i \in OnPath :
    LET t == simulationTimeMs
        r == displayPosition(i)
    IN /\ r.d > 0
       /\ WrapsOntoZeroSpan(i, t) => r = Exact(FirstOf(i))
       /\ Cardinality(TiedAt(i, t)) >= 2 =>
            IF t = FirstOf(i).atMs \/ t < LastOf(i).atMs
            THEN SamePosition(r, Exact(Keyframes(i)[Lowest(TiedAt(i, t))]))
            ELSE IF LoopOf(entities[i].motion)
                 THEN SamePosition(r, Exact(FirstOf(i)))
                 ELSE SamePosition(r, Exact(LastOf(i)))

\* a looping path that starts with two keyframes at time 500, drawn at a
\* time that wraps onto them: the first of the two
C33_Witness ==
  /\ simulationTimeMs = 1500
  /\ \E i \in OnPath :
       /\ WrapsOntoZeroSpan(i, simulationTimeMs)
       /\ Keyframes(i)[1] = MotionPoint(0, 100, 500)
       /\ Keyframes(i)[2] = MotionPoint(100, 0, 500)
       /\ displayPosition(i) = Exact(MotionPoint(0, 100, 500))

\* the position r, a pair of fractions, lies on the segment from a to b
OnSegment(r, a, b) ==
  /\ (r.x - a.x * r.d) * (b.y - a.y) = (r.y - a.y * r.d) * (b.x - a.x)
  /\ Min2(a.x, b.x) * r.d <= r.x /\ r.x <= Max2(a.x, b.x) * r.d
  /\ Min2(a.y, b.y) * r.d <= r.y /\ r.y <= Max2(a.y, b.y) * r.d

\* getMotionPosition on the motion of entity i as it is stored, at the clock
storedPosition(i) ==
  getMotionPosition(entities[i].motion, entities[i].position, simulationTimeMs)

\* C40: for a path with at least one point, in any order, with or without
\* equal atMs, looping or not, and any query time, getMotionPosition returns
\* the coordinates of a keyframe or a point between two keyframes that follow
\* each other in time, never the fallback: each coordinate lies between the
\* lowest and the highest keyframe coordinate of its axis.
C40_NeverFallsThrough ==
  \A i \in OnPath :
    LET r == storedPosition(i)
        K == Keyframes(i)
        xs == {K[k].x : k \in 1..Len(K)}
        ys == {K[k].y : k \in 1..Len(K)}
    IN /\ r.d > 0
       /\ \/ \E k \in 1..Len(K) : SamePosition(r, Exact(K[k]))
          \/ \E k \in 1..(Len(K) - 1) : OnSegment(r, K[k], K[k + 1])
       /\ \A lo \in xs : (\A x \in xs : lo <= x) => lo * r.d <= r.x
       /\ \A hi \in xs : (\A x \in xs : hi >= x) => r.x <= hi * r.d
       /\ \A lo \in ys : (\A y \in ys : lo <= y) => lo * r.d <= r.y
       /\ \A hi \in ys : (\A y \in ys : hi >= y) => r.y <= hi * r.d
       /\ storedPosition(i) = displayPosition(i)

\* a looping path stored out of order with two keyframes at time 500, drawn
\* past its end: half way from the keyframe of time 0 to the first of time 500
C40_Witness ==
  /\ simulationTimeMs = 1250
  /\ \E i \in OnPath :
       /\ LoopOf(entities[i].motion)
       /\ ~IsSorted(StoredPoints(entities[i]))
       /\ Cardinality(TiedAt(i, 500)) = 2
       /\ FirstOf(i).atMs = 0 /\ LastOf(i).atMs = 1000
       /\ SamePosition(storedPosition(i), [x |-> 0, y |-> 50, d |-> 1])
       /\ entities[i].position = Vec(-50, -50)

\* C34: removeAction(id) removes the action of that id and the AoEs whose
\* sourceActionId is id, and nothing else: the other actions with their
\* executed flags, the AoEs of other actions, the placed AoEs, the entities
\* and the clock stay; with no action of that id nothing changes.
C34_RemoveActionFrame ==
  [][lastOp'.op = "removeAction" =>
       LET id == lastOp'.arg
           goneActions == {i \in 1..Len(actions) : actions[i].id = id}
           goneAoes == {i \in 1..Len(aoes) : aoes[i].sourceActionId = id}
       IN /\ actions' = SelectSeq(actions, LAMBDA item : item.id # id)
          /\ Len(actions') = Len(actions) - Cardinality(goneActions)
          /\ aoes' = SelectSeq(aoes, LAMBDA item : item.sourceActionId # id)
          /\ Len(aoes') = Len(aoes) - Cardinality(goneAoes)
          /\ UserAoes(aoes') = UserAoes(aoes)
          /\ \A a \in SeqToSet(actions) : a.id # id => a \in SeqToSet(actions')
          /\ \A a \in SeqToSet(aoes) :
               a.sourceActionId # id => a \in SeqToSet(aoes')
          /\ UNCHANGED <<arena, entities, selection, placement, toolMode,
                         simulationTimeMs, timelineDurationMs, playing,
                         idCounter>>
          /\ goneActions = {} => UNCHANGED storeVars
    ]_vars

\* the first default action was removed at time 6000 after both had fired
\* and an AoE had been placed: the second action, still executed, its AoE
\* and the placed AoE are left
C34_Witness ==
  /\ lastOp.op = "removeAction" /\ lastOp.arg = defaultActions[1].id
  /\ simulationTimeMs = 6000
  /\ Len(actions) = 1 /\ actions[1].id = defaultActions[2].id
  /\ actions[1].executed
  /\ \E i \in 1..Len(aoes) : aoes[i].sourceActionId = defaultActions[2].id
  /\ \E i \in 1..Len(aoes) : aoes[i].sourceActionId = NoId
  /\ \A i \in 1..Len(aoes) : aoes[i].sourceActionId # defaultActions[1].id

\* C35: at most one frame callback is requested at any time; a frame commits
\* clamp(prev + delta) of the time the store holds, with the actions due at
\* the new time fired, and only then is the next frame requested: after it
\* one callback is requested again.
C35_OneFrameAtATime ==
  [][/\ frame.requests <= 1
     /\ frame'.requests <= 1
     /\ (lastOp'.op = "tick" /\ frame' = frame) =>
          /\ simulationTimeMs' =
               Min2(frame.timelineDurationMs,
                    Max2(0, simulationTimeMs + lastOp'.arg))
          /\ \A i \in 1..Len(actions') :
               actions'[i].atMs <= simulationTimeMs' => actions'[i].executed
          /\ frame'.requests = 1
    ]_vars

\* from a clock scrubbed to 2000, two frames of 4000 ms ran while playing,
\* the second from the time the first had committed
C35_Witness ==
  /\ lastOp.op = "tick" /\ lastOp.rep /\ lastOp.arg = 4000
  /\ playing
  /\ frame.requests = 1
  /\ simulationTimeMs = 10000
  /\ NumDerived(aoes) = 2

\* C36: an action is executed only if its atMs is at or before the clock.
C36_ExecutedOnlyIfDue ==
  \A i \in 1..Len(actions) :
    actions[i].executed => actions[i].atMs <= simulationTimeMs

\* C37: every AoE with a sourceActionId agrees with its source action as it
\* is now: startAtMs is the action's atMs, delayMs, durationMs, shape and
\* rotation are those of the action's payload.
C37_DerivedAgreesWithAction ==
  \A j \in DerivedIdx(aoes) :
    \E i \in 1..Len(actions) :
      /\ actions[i].id = aoes[j].sourceActionId
      /\ aoes[j].timing.startAtMs = actions[i].atMs
      /\ aoes[j].timing.delayMs = actions[i].payload.delayMs
      /\ aoes[j].timing.durationMs = actions[i].payload.durationMs
      /\ aoes[j].shape = actions[i].payload.shape
      /\ aoes[j].rotation = actions[i].payload.rotation

\* C38: a selection that is not null names an item that exists: an entity
\* of that id for kind 'entity', an AoE of that id for kind 'aoe'.
C38_SelectionExists ==
  /\ selection.kind = "entity" => selection.id \in Ids(entities)
  /\ selection.kind = "aoe" => selection.id \in Ids(aoes)

\* every action due within the timeline is executed and has a derived AoE
AllDueFired ==
  \A i \in 1..Len(actions) :
    actions[i].atMs <= timelineDurationMs =>
      actions[i].executed /\ CountSource(aoes, actions[i].id) > 0

\* C39: while playing stays true and only frames of positive delta run, the
\* clock never decreases, it eventually equals timelineDurationMs, and
\* eventually every action with atMs <= timelineDurationMs is executed and
\* has a derived AoE.
C39_PlaybackReachesEnd ==
  /\ [][(playing /\ playing') => simulationTimeMs' >= simulationTimeMs]_vars
  /\ [](playing => <>(simulationTimeMs = timelineDurationMs))
  /\ [](playing => <>AllDueFired)

====
